---- MODULE Spec2Model ----
(***************************************************************************)
(* Subagent orchestration core of clawdbot: the spawn engine               *)
(* (src/src/agents/subagent-spawn.ts), the /subagents command surface      *)
(* (src/unnamed/part_005, commands-subagents.ts) and the registry, gateway *)
(* and session store they drive.  Every command invocation is a process    *)
(* that runs synchronously between two awaits; each await of callGateway   *)
(* or updateSessionStore is a suspension point at which the other          *)
(* invocations may run.                                                    *)
(*                                                                         *)
(* Node bridge server (src/unnamed/part_003, bridge/server.ts): every      *)
(* socket has the closure state of onConnection; every received line is    *)
(* handled by its own async function, so the handlers of one socket        *)
(* interleave at their awaits and share isAuthenticated, nodeId, nodeInfo. *)
(***************************************************************************)
EXTENDS Integers, Sequences, FiniteSets, TLC

\* ------------------------------------------------------------------ bounds
NumProcs == 2
MaxRuns == 3
MaxSessions == 2
MaxDepthCfg == 2
MaxChildrenCfg == 2
MaxAllow == 2
MaxTicks == 3
MaxTokens == 3

Procs == 1..NumProcs
RunIds == 1..MaxRuns

\* ------------------------------------------------------------------ strings
\* A string is a sequence of one-character strings, so that trim and
\* toLowerCase are computed, not assumed.
LowerChar(c) ==
  CASE c = "A" -> "a"
    [] c = "B" -> "b"
    [] c = "M" -> "m"
    [] c = "O" -> "o"
    [] OTHER -> c

toLowerCase(s) == [i \in 1..Len(s) |-> LowerChar(s[i])]

RECURSIVE trimStart(_)
trimStart(s) == IF s # <<>> /\ Head(s) = " " THEN trimStart(Tail(s)) ELSE s

RECURSIVE trimEnd(_)
trimEnd(s) ==
  IF s # <<>> /\ s[Len(s)] = " " THEN trimEnd(SubSeq(s, 1, Len(s) - 1)) ELSE s

trim(s) == trimEnd(trimStart(s))

\* /^\d+$/.test(token)
DigitValue(c) ==
  CASE c = "0" -> 0 [] c = "1" -> 1 [] c = "2" -> 2 [] c = "3" -> 3 [] c = "4" -> 4
    [] c = "5" -> 5 [] c = "6" -> 6 [] c = "7" -> 7 [] c = "8" -> 8 [] c = "9" -> 9
    [] OTHER -> 0 - 1

isDigits(token) == token # <<>> /\ \A i \in 1..Len(token) : DigitValue(token[i]) >= 0

\* Number.parseInt(token, 10) of a token of digits.
RECURSIVE parseInt(_)
parseInt(token) ==
  IF token = <<>> THEN 0
  ELSE 10 * parseInt(SubSeq(token, 1, Len(token) - 1)) + DigitValue(token[Len(token)])

DEFAULT_AGENT_ID == <<"m">>

\* routing/session-key.js: the agent id segment is case-normalized.
normalizeAgentId(value) ==
  IF trim(value) = <<>> THEN DEFAULT_AGENT_ID ELSE toLowerCase(trim(value))

\* A message is a sequence of words; includes is String.prototype.includes
\* at word granularity.
includes(text, needle) ==
  \E i \in 0..(Len(text) - Len(needle)) :
     SubSeq(text, i + 1, i + Len(needle)) = needle

\* ------------------------------------------------------------------ session keys
\* agent:<agentId>:main is [agent, id |-> 0]; agent:<agentId>:subagent:<uuid>
\* is [agent, id |-> uuid].
Root == [agent |-> DEFAULT_AGENT_ID, id |-> 0]

parseAgentSessionKey(key) == [agentId |-> key.agent]

Agents == {<<"m">>, <<"o">>, <<"b">>}

SessionKeys == {Root} \cup {[agent |-> a, id |-> n] : a \in Agents, n \in 1..MaxSessions}

NoKey == [agent |-> <<>>, id |-> -1]

\* ------------------------------------------------------------------ thinking levels
\* auto-reply/thinking.js: the known levels; any other token is undefined ("").
ThinkLevels == {"off", "minimal", "low", "medium", "high"}

normalizeThinkLevel(raw) == IF raw \in ThinkLevels THEN raw ELSE ""

\* ------------------------------------------------------------------ models
\* A model selection is a string or an object {primary}; the undefined value
\* and the empty string are both <<>>.
ModelString(text) == [isObject |-> FALSE, text |-> text]

ModelObject(primary) == [isObject |-> TRUE, text |-> primary]

normalizeModelSelection(value) == trim(value.text)

\* resolveDefaultModelForAgent: the process-wide runtime default.
resolveDefaultModelForAgent(agentId) == [provider |-> <<"p">>, model |-> <<"d">>]

FirstNonEmpty(values) ==
  IF \E i \in 1..Len(values) : values[i] # <<>>
  THEN values[CHOOSE i \in 1..Len(values) :
                 values[i] # <<>> /\ \A j \in 1..(i - 1) : values[j] = <<>>]
  ELSE <<>>

\* resolvedModel with the global default asked before the target agent.
resolvedModelOfDefaultsFirst(c, targetAgentId, modelOverride) ==
  LET rt == resolveDefaultModelForAgent(targetAgentId)
  IN FirstNonEmpty(<<normalizeModelSelection(ModelString(modelOverride)),
                     normalizeModelSelection(c.defaultsSubagentModel),
                     normalizeModelSelection(c.subagentModel[targetAgentId]),
                     normalizeModelSelection(ModelString(c.defaultsModelPrimary)),
                     normalizeModelSelection(
                       ModelString(rt.provider \o <<"/">> \o rt.model))>>)

resolvedModelOf(c, targetAgentId, modelOverride) ==
  LET rt == resolveDefaultModelForAgent(targetAgentId)
  IN FirstNonEmpty(<<normalizeModelSelection(ModelString(modelOverride)),
                     normalizeModelSelection(c.subagentModel[targetAgentId]),
                     normalizeModelSelection(c.defaultsSubagentModel),
                     normalizeModelSelection(ModelString(c.defaultsModelPrimary)),
                     normalizeModelSelection(
                       ModelString(rt.provider \o <<"/">> \o rt.model))>>)

\* ------------------------------------------------------------------ thrown values
\* What a rejected callGateway throws: an Error, a string, or something else.
Thrown(kind, message) == [kind |-> kind, message |-> message]

messageTextOf(err) ==
  IF err.kind \in {"Error", "string"} THEN err.message ELSE <<"error">>

Ok == Thrown("ok", <<>>)

RpcFailures ==
  {Thrown("Error", <<"gateway", "timeout">>), Thrown("other", <<>>)}

ModelPatchFailures ==
  RpcFailures \cup {Thrown("Error", <<"invalid", "model", ":", "x">>),
                    Thrown("string", <<"model", "not", "allowed">>)}

\* ------------------------------------------------------------------ session store
\* A SessionEntry, with the fields the core and the gateway touch.
NoEntry == [exists |-> FALSE, spawnDepth |-> 0, spawnedBy |-> NoKey,
            sessionId |-> FALSE, abortedLastRun |-> FALSE]

\* ------------------------------------------------------------------ registry
\* createdAt and endedAt are in minutes; ended says that endedAt is set.  The
\* clock stands still at 0 wherever time plays no part.
Record(runId, child, requester) ==
  [runId |-> runId, childSessionKey |-> child, requesterSessionKey |-> requester,
   ended |-> FALSE, outcome |-> "", steerRestart |-> FALSE,
   createdAt |-> 0, endedAt |-> 0, runTimeoutSeconds |-> 0,
   label |-> <<>>, task |-> <<"t">>]

NoRecord == [Record(0, NoKey, NoKey) EXCEPT !.ended = TRUE]

Has(runs, runId) == runId \in RunIds /\ runs[runId].runId = runId

registerSubagentRun(runs, rec) == [runs EXCEPT ![rec.runId] = rec]

listSubagentRunsForRequester(runs, key) ==
  {runs[r] : r \in {x \in RunIds : Has(runs, x) /\ runs[x].requesterSessionKey = key}}

countActiveRunsForSession(runs, key) ==
  Cardinality({rec \in listSubagentRunsForRequester(runs, key) : ~rec.ended})

markSubagentRunTerminatedToggling(runs, runId, reason) ==
  IF Has(runs, runId)
  THEN [runs EXCEPT ![runId].ended = ~@, ![runId].outcome = reason]
  ELSE runs

markSubagentRunTerminated(runs, runId, reason) ==
  IF Has(runs, runId) /\ ~runs[runId].ended
  THEN [runs EXCEPT ![runId].ended = TRUE, ![runId].outcome = reason]
  ELSE runs

markSubagentRunForSteerRestart(runs, runId) ==
  IF Has(runs, runId) THEN [runs EXCEPT ![runId].steerRestart = TRUE] ELSE runs

clearSubagentRunSteerRestart(runs, runId) ==
  IF Has(runs, runId) THEN [runs EXCEPT ![runId].steerRestart = FALSE] ELSE runs

\* Retires previousRunId and inserts the record of nextRunId, which inherits
\* requester and child from fallback and is in flight again; the
\* runTimeoutSeconds it is given is that of fallback.
replaceSubagentRunAfterSteer(runs, previousRunId, nextRunId, fallback) ==
  LET retired == IF Has(runs, previousRunId) /\ previousRunId # nextRunId
                 THEN [runs EXCEPT ![previousRunId] = NoRecord]
                 ELSE runs
  IN [retired EXCEPT ![nextRunId] =
        [Record(nextRunId, fallback.childSessionKey, fallback.requesterSessionKey)
           EXCEPT !.runTimeoutSeconds = fallback.runTimeoutSeconds]]

\* subagent-depth.js: the number of spawnedBy hops from key to a session
\* nobody spawned; a chain that does not end within the bound resolves to 0.
RECURSIVE DepthWalk(_, _, _)
DepthWalk(st, key, fuel) ==
  IF ~st[key].exists \/ st[key].spawnedBy = NoKey THEN 0
  ELSE IF fuel = 0 THEN -1
  ELSE LET up == DepthWalk(st, st[key].spawnedBy, fuel - 1)
       IN IF up < 0 THEN -1 ELSE up + 1

getSubagentDepthUnguarded(st, key) ==
  LET d == DepthWalk(st, key, Cardinality(SessionKeys))
  IN IF d < 0 THEN Cardinality(SessionKeys) ELSE d

getSubagentDepthFromSessionStore(st, key) ==
  LET d == DepthWalk(st, key, Cardinality(SessionKeys)) IN IF d < 0 THEN 0 ELSE d


\* ------------------------------------------------------------------ invocations
NoResult ==
  [status |-> "", error |-> <<>>, childSessionKey |-> NoKey, runId |-> 0,
   modelApplied |-> "undefined", warning |-> <<>>, text |-> <<>>]

\* The inputs of a spawn: SpawnSubagentParams, and whether the call comes from
\* the /subagents spawn action, which turns the result into a reply.
\* params.runTimeoutSeconds in tenths of a second; NotFinite stands for every
\* value that is not a finite number (undefined, NaN, Infinity, a string).
Tenth == 10
NotFinite == 0 - 999

NoArgs ==
  [agentId |-> <<>>, model |-> <<>>, thinking |-> "", command |-> FALSE, task |-> <<>>,
   restTokens |-> <<>>, runTimeoutSeconds |-> NotFinite]

\* The params of the agent call an invocation has issued.
NoAgentParams == [deliver |-> TRUE, lane |-> "", timeout |-> 0, spawnedBy |-> NoKey]

IdleCall ==
  [kind |-> "none", pc |-> "idle", req |-> NoKey, args |-> NoArgs,
   child |-> NoKey, childDepth |-> 0, model |-> <<>>, thinking |-> "",
   modelApplied |-> FALSE, modelWarning |-> <<>>, target |-> 0, runId |-> 0,
   runTimeoutSeconds |-> 0, agentParams |-> NoAgentParams, historyLimit |-> 0,
   trace |-> <<>>, rejections |-> <<>>]

\* What the caller of an invocation that has just returned observes: the
\* invocation, its result and the effects it performed.
NoReturn ==
  [kind |-> "none", req |-> NoKey, args |-> NoArgs, child |-> NoKey,
   target |-> 0, result |-> NoResult, trace |-> <<>>, rejections |-> <<>>]

\* /subagents spawn: the reply made of the result of spawnSubagentDirect.
SpawnCommandReply(result) ==
  [NoResult EXCEPT
     !.status = "reply",
     !.text = IF result.status = "accepted"
              THEN <<"Spawned subagent">>
                   \o (IF result.warning # <<>> THEN <<"Warning:">> \o result.warning
                       ELSE <<>>)
              ELSE <<"Spawn failed:">>
                   \o (IF result.error # <<>> THEN result.error ELSE <<result.status>>),
     !.childSessionKey = result.childSessionKey,
     !.runId = result.runId]

ReturnOf(frame, result) ==
  [kind |-> frame.kind, req |-> frame.req, args |-> frame.args,
   child |-> frame.child, target |-> frame.target,
   result |-> IF frame.kind = "spawn" /\ frame.args.command
              THEN SpawnCommandReply(result) ELSE result,
   trace |-> frame.trace, rejections |-> frame.rejections]

\* The call the invocation awaits has rejected with err: the gateway's answer
\* is logged with the effects.
Rejecting(frame, err) ==
  [frame EXCEPT !.rejections =
     Append(@, [method |-> frame.trace[Len(frame.trace)], err |-> err])]

Rpcs == {"sessions.patch:spawnDepth", "sessions.patch:model",
         "sessions.patch:thinkingLevel", "agent", "agent.wait", "chat.history"}

RpcsIn(trace) == {i \in 1..Len(trace) : trace[i] \in Rpcs}

VARIABLES
  cfg,          \* loadConfig(): the configuration, fixed for a run
  subagentRuns, \* the registry: run id -> SubagentRunRecord
  store,        \* the session store: session key -> SessionEntry
  nextRun,      \* the next run id / idempotency key of crypto.randomUUID
  nextUuid,     \* the next child session uuid of crypto.randomUUID
  call,         \* per invocation in flight: kind, position, locals, effects
  returned,     \* the invocation that returned in the last step, if any
  conn,         \* node bridge: per socket, the closure state of onConnection
  connections,  \* node bridge: the connection table, nodeId -> socket
  pairing,      \* node-pairing.js: pending requests, paired nodes, the clock
  callbacks,    \* node bridge: the opts.on* callbacks invoked so far
  invokes,      \* node bridge: the promises returned by server.invoke
  session       \* macOS node: the MacNodeBridgeSession actor and its tasks

coreVars == <<cfg, subagentRuns, store, nextRun, nextUuid, call, returned, session>>

bridgeVars == <<conn, connections, pairing, callbacks, invokes>>

serverVars == <<cfg, subagentRuns, store, nextRun, nextUuid, call, returned,
                conn, connections, pairing, callbacks, invokes>>

vars == <<cfg, subagentRuns, store, nextRun, nextUuid, call, returned,
          conn, connections, pairing, callbacks, invokes, session>>

\* The invocation of p suspends at its next await.
Suspend(p, frame) ==
  /\ call' = [call EXCEPT ![p] = frame]
  /\ returned' = NoReturn
  /\ nextRun' = IF frame.runId = nextRun THEN nextRun + 1 ELSE nextRun
  /\ nextUuid' = IF frame.child.id = nextUuid THEN nextUuid + 1 ELSE nextUuid
  /\ UNCHANGED <<bridgeVars, session>>

\* The invocation of p returns result to its caller.
Return(p, frame, result) ==
  /\ call' = [call EXCEPT ![p] = IdleCall]
  /\ returned' = ReturnOf(frame, result)
  /\ UNCHANGED <<nextRun, nextUuid>>
  /\ UNCHANGED <<bridgeVars, session>>

\* ------------------------------------------------------------ node bridge
MaxConns == 2
MaxFrames == 3
MaxHandlers == 2
MaxInvokes == 2
MaxRequests == 2
MaxApprovals == 2

Conns == 1..MaxConns
Handlers == 1..MaxHandlers
InvokeIds == 1..MaxInvokes

\* The values of the closure variable nodeId after trim(); null and "" are
\* both <<>>, the code tests them with !nodeId only.
NoNode == <<>>

NodeNames == {NoNode, <<"A">>, <<"B">>}

\* A line written to a socket.
Frame(type, code, token, id) == [type |-> type, code |-> code, token |-> token, id |-> id]

ErrorFrame(code) == Frame("error", code, 0, 0)

PairOk(token) == Frame("pair-ok", "", token, 0)

HelloOk == Frame("hello-ok", "", 0, 0)

\* node-pairing.js is not part of the sources; the store is modelled from
\* the way the server and its tests use it.  A pending request carries the
\* time of its creation, a paired node its token and the time of its
\* approval; every change of the store happens at a later time than the
\* one before it.
NoRequest == [requestId |-> 0, nodeId |-> NoNode, ts |-> 0]

NoPaired == [token |-> 0, approvedAtMs |-> 0]

InitPairing ==
  [pending |-> {}, paired |-> [n \in NodeNames |-> NoPaired],
   now |-> 1, nextRequest |-> 1, nextToken |-> 1, approved |-> {}]

getPairedNode(p, nodeId) == p.paired[nodeId]

verifyNodeTokenAnyPaired(p, nodeId, token) == p.paired[nodeId].token # 0

verifyNodeToken(p, nodeId, token) ==
  p.paired[nodeId].token # 0 /\ p.paired[nodeId].token = token

listNodePairing(p) == p.pending

\* requestNodePairing: the pending request of the node when there is one,
\* else a new request created now.
requestNodePairing(p, nodeId) ==
  LET existing == {q \in p.pending : q.nodeId = nodeId} IN
  IF existing # {}
  THEN [store |-> p, request |-> CHOOSE q \in existing : TRUE, created |-> FALSE]
  ELSE LET request == [requestId |-> p.nextRequest, nodeId |-> nodeId, ts |-> p.now] IN
       [store |-> [p EXCEPT !.pending = @ \cup {request},
                            !.nextRequest = @ + 1, !.now = @ + 1],
        request |-> request, created |-> TRUE]

\* approveNodePairing: the request leaves the pending list and its node is
\* paired with a fresh token, approved now.
approveNodePairing(p, request) ==
  [p EXCEPT !.pending = @ \ {request},
            !.paired[request.nodeId] = [token |-> p.nextToken, approvedAtMs |-> p.now],
            !.nextToken = @ + 1, !.now = @ + 1,
            !.approved = @ \cup {request.requestId}]

\* rejectNodePairing: the request leaves the pending list.
rejectNodePairing(p, request) == [p EXCEPT !.pending = @ \ {request}]

\* One async handler of a received line, suspended at an await.
NoHandler == [kind |-> "none", pc |-> "done", nodeId |-> NoNode, token |-> 0,
              request |-> NoRequest]

\* onConnection: the closure state of one socket.  sent is what was written
\* to the socket while it was open, received the number of lines read.
NoConn ==
  [socket |-> "none", isAuthenticated |-> FALSE, nodeId |-> NoNode,
   nodeInfo |-> NoNode, invokeWaiters |-> {}, aborted |-> FALSE,
   sent |-> <<>>, received |-> 0, handlers |-> [h \in Handlers |-> NoHandler]]

NoConnection == [socket |-> 0, nodeInfo |-> NoNode]

NoInvoke == [state |-> "none", socket |-> 0, timer |-> FALSE, settles |-> 0,
             outcome |-> "", res |-> 0]

Callback(cb, c, nodeId, id) == [cb |-> cb, conn |-> c, nodeId |-> nodeId, id |-> id]

\* ------------------------------------------------------ macOS bridge session
\* MacNodeBridgeSession.swift.  The actor runs one job at a time; a job runs
\* from one suspension point to the next, and the jobs that are ready run in
\* any order.  connect() number k opens NWConnection k and starts ping task k.
MaxConnects == 2
MaxRpcs == 1
MaxChunk == 2

ConnectIds == 1..MaxConnects
RpcIds == 1..MaxRpcs

\* let interval: Duration = .seconds(15); let timeout: Duration = .seconds(45)
PING_INTERVAL == 15
PING_TIMEOUT == 45

\* Time since lastPongAt, in seconds, read no further than MaxAge; NoPong is
\* lastPongAt == nil.
MaxAge == 60
NoPong == 0 - 1

\* The lines the bridge sends, by their type; "bad" is a line that does not
\* decode as its type says, and stands for every other answer to the hello.
Frames == {"hello-ok", "res", "pong", "ping", "bad"}

\* What a receive on the NWConnection completes with: data (whole lines), no
\* data at the end of the stream, or an error.
Chunk(kind, frames) == [kind |-> kind, frames |-> frames]

NoChunk == Chunk("none", <<>>)

Chunks ==
  {Chunk("empty", <<>>), Chunk("error", <<>>)}
  \cup {Chunk("data", frames) : frames \in UNION {[1..n -> Frames] : n \in 1..MaxChunk}}

IdleSession ==
  [state |-> "idle", connection |-> 0, pingTask |-> 0, lastPongAt |-> NoPong,
   pendingRPC |-> {}, buffer |-> <<>>,
   connects |-> [k \in ConnectIds |-> [pc |-> "none", chunk |-> NoChunk]],
   pings |-> [k \in ConnectIds |-> [pc |-> "none", cancelled |-> FALSE, slept |-> FALSE]],
   rpcs |-> [id \in RpcIds |-> [pc |-> "none", resumed |-> 0, by |-> ""]],
   net |-> [k \in ConnectIds |-> [state |-> "none", handler |-> FALSE, notice |-> FALSE]]]

\* cont.resume of the continuation of request id, taken out of pendingRPC.
ResumeRPC(s, id, by) ==
  [s EXCEPT !.pendingRPC = @ \ {id},
            !.rpcs[id] = [pc |-> "done", resumed |-> @.resumed + 1, by |-> by]]

\* failRPC, timeoutRPC and the "res" case: if let cont = removeValue(forKey:).
ResumePending(s, id, by) == IF id \in s.pendingRPC THEN ResumeRPC(s, id, by) ELSE s

\* disconnect() without self.state = .idle.
disconnectKeepingState(s) ==
  [s EXCEPT
     !.pings = [k \in ConnectIds |->
                  IF k = s.pingTask THEN [@[k] EXCEPT !.cancelled = TRUE] ELSE @[k]],
     !.pingTask = 0,
     !.lastPongAt = NoPong,
     !.net = [k \in ConnectIds |->
                IF k = s.connection
                THEN [@[k] EXCEPT !.state = "cancelled", !.notice = @ \/ s.net[k].handler]
                ELSE @[k]],
     !.connection = 0,
     !.buffer = <<>>,
     !.rpcs = [id \in RpcIds |->
                 IF id \in s.pendingRPC
                 THEN [pc |-> "done", resumed |-> @[id].resumed + 1, by |-> "disconnect"]
                 ELSE @[id]],
     !.pendingRPC = {}]

\* disconnect(): it has no suspension point, so it is one job.  Cancelling
\* the connection makes its stateUpdateHandler see .cancelled.
disconnect(s) == [disconnectKeepingState(s) EXCEPT !.state = "idle"]

startPingLoop(s, k) ==
  [s EXCEPT
     !.pings = [j \in ConnectIds |->
                  IF j = k THEN [pc |-> "sleep", cancelled |-> FALSE, slept |-> FALSE]
                  ELSE IF j = s.pingTask THEN [@[j] EXCEPT !.cancelled = TRUE]
                  ELSE @[j]],
     !.lastPongAt = 0,
     !.pingTask = k]

\* The while loop of connect() from a receiveLine() to its next suspension
\* point: the lines of the buffer are handled one by one; with the buffer
\* empty receiveChunk() awaits the connection, or returns no data at once
\* when there is none, which ends the loop and disconnects.
RECURSIVE receiveLoop(_, _)
receiveLoop(s, k) ==
  IF s.buffer = <<>>
  THEN IF s.connection = 0
       THEN [disconnect(s) EXCEPT !.connects[k].pc = "returned"]
       ELSE [s EXCEPT !.connects[k].pc = "receive"]
  ELSE LET line == Head(s.buffer)
           rest == [s EXCEPT !.buffer = Tail(@)]
       IN IF line = "res" THEN receiveLoop(ResumePending(rest, 1, "res"), k)
          ELSE IF line = "pong" THEN receiveLoop([rest EXCEPT !.lastPongAt = 0], k)
          ELSE IF line = "ping"
          THEN IF rest.connection = 0
               THEN [rest EXCEPT !.connects[k].pc = "thrown"]
               ELSE [rest EXCEPT !.connects[k].pc = "send"]
          ELSE IF line = "bad" THEN [rest EXCEPT !.connects[k].pc = "thrown"]
          ELSE receiveLoop(rest, k)

\* connect(), up to its await of waitForReady.  The owner calls connect()
\* again only after the call before has returned or thrown.
connect(k) ==
  /\ session.connects[k].pc = "none"
  /\ \A j \in 1..(k - 1) : session.connects[j].pc \in {"returned", "thrown"}
  /\ session' = [disconnect(session) EXCEPT
                   !.state = "connecting",
                   !.connection = k,
                   !.net[k] = [state |-> "setup", handler |-> FALSE, notice |-> FALSE],
                   !.connects[k].pc = "waitForReady"]
  /\ UNCHANGED serverVars

\* waitForReady ends: the connection is ready, or it failed, was cancelled
\* or took more than 6 seconds.  When ready the state handler is installed
\* and the hello is sent.
ConnectionReady(k, ready) ==
  /\ session.connects[k].pc = "waitForReady"
  /\ session' =
       IF ready /\ session.net[k].state = "setup" /\ session.connection # 0
       THEN [session EXCEPT !.net[k].state = "ready", !.net[k].handler = TRUE,
                            !.connects[k].pc = "sendHello"]
       ELSE [session EXCEPT !.connects[k].pc = "thrown"]
  /\ UNCHANGED serverVars

\* The send of the hello completes; receiveLine() follows.
HelloSent(k, ok) ==
  /\ session.connects[k].pc = "sendHello"
  /\ session' =
       IF ~ok THEN [session EXCEPT !.connects[k].pc = "thrown"]
       ELSE IF session.connection = 0
       THEN [disconnect(session) EXCEPT !.connects[k].pc = "thrown"]
       ELSE [session EXCEPT !.connects[k].pc = "receiveHello"]
  /\ UNCHANGED serverVars

\* The completion of connection.receive resumes the continuation of
\* receiveChunk(); connect() goes on when the actor runs it next.  A
\* connection that was cancelled or has failed delivers no more data.
ChunkReceived(k, chunk) ==
  /\ session.connects[k].pc \in {"receiveHello", "receive"}
  /\ session.net[k].state # "ready" => chunk.kind # "data"
  /\ session' = [session EXCEPT
                   !.connects[k] = [pc |-> IF @.pc = "receive" THEN "received"
                                           ELSE "receivedHello",
                                    chunk |-> chunk]]
  /\ UNCHANGED serverVars

\* connect() from the first line of the bridge to its await of onConnected.
HelloAnswered(k) ==
  LET chunk == session.connects[k].chunk
      taken == [session EXCEPT !.connects[k].chunk = NoChunk,
                               !.buffer = @ \o (IF chunk.frames = <<>> THEN <<>>
                                                ELSE Tail(chunk.frames))]
  IN /\ session.connects[k].pc = "receivedHello"
     /\ session' =
          IF chunk.kind = "error" THEN [taken EXCEPT !.connects[k].pc = "thrown"]
          ELSE IF chunk.kind = "empty"
          THEN [disconnect(taken) EXCEPT !.connects[k].pc = "thrown"]
          ELSE IF Head(chunk.frames) = "hello-ok"
          THEN [startPingLoop([taken EXCEPT !.state = "connected"], k)
                  EXCEPT !.connects[k].pc = "onConnected"]
          ELSE [disconnect(taken) EXCEPT !.connects[k].pc = "thrown"]
     /\ UNCHANGED serverVars

\* onConnected returns; the receive loop starts.
OnConnected(k) ==
  /\ session.connects[k].pc = "onConnected"
  /\ session' = receiveLoop(session, k)
  /\ UNCHANGED serverVars

\* The receive loop goes on with what the connection delivered.
ChunkHandled(k) ==
  LET chunk == session.connects[k].chunk
      taken == [session EXCEPT !.connects[k].chunk = NoChunk,
                               !.buffer = @ \o chunk.frames]
  IN /\ session.connects[k].pc = "received"
     /\ session' =
          IF chunk.kind = "error" THEN [taken EXCEPT !.connects[k].pc = "thrown"]
          ELSE IF chunk.kind = "empty"
          THEN [disconnect(taken) EXCEPT !.connects[k].pc = "returned"]
          ELSE receiveLoop(taken, k)
     /\ UNCHANGED serverVars

\* The send of a pong completes.
PongSent(k, ok) ==
  /\ session.connects[k].pc = "send"
  /\ session' = IF ok THEN receiveLoop(session, k)
                ELSE [session EXCEPT !.connects[k].pc = "thrown"]
  /\ UNCHANGED serverVars

\* PING_INTERVAL seconds pass: Task.sleep(for: interval) is over.
IntervalPassed ==
  LET later == [session EXCEPT
                  !.lastPongAt = IF @ = NoPong THEN NoPong
                                 ELSE IF @ + PING_INTERVAL > MaxAge THEN MaxAge
                                 ELSE @ + PING_INTERVAL,
                  !.pings = [k \in ConnectIds |->
                               IF @[k].pc = "sleep" THEN [@[k] EXCEPT !.slept = TRUE]
                               ELSE @[k]]]
  IN /\ later # session
     /\ session' = later
     /\ UNCHANGED serverVars

\* runPingLoop after its sleep, which a cancel ends early: without a
\* connection the task ends; a pong older than the timeout disconnects;
\* else a ping is sent.
PingWake(k) ==
  LET task == session.pings[k]
  IN /\ task.pc = "sleep" /\ (task.slept \/ task.cancelled)
     /\ session' =
          IF session.connection = 0 THEN [session EXCEPT !.pings[k].pc = "done"]
          ELSE IF session.lastPongAt # NoPong /\ session.lastPongAt > PING_TIMEOUT
          THEN [disconnect(session) EXCEPT !.pings[k].pc = "done"]
          ELSE [session EXCEPT !.pings[k].pc = "send"]
     /\ UNCHANGED serverVars

\* The send of the ping completes; while !Task.isCancelled.
PingSent(k, ok) ==
  LET task == session.pings[k]
  IN /\ task.pc = "send"
     /\ session' =
          IF ~ok THEN [disconnect(session) EXCEPT !.pings[k].pc = "done"]
          ELSE IF task.cancelled THEN [session EXCEPT !.pings[k].pc = "done"]
          ELSE [session EXCEPT !.pings[k] = [pc |-> "sleep", cancelled |-> FALSE,
                                             slept |-> FALSE]]
     /\ UNCHANGED serverVars

\* request(): without a connection it throws; else the continuation is made
\* and a task is started for beginRPC.
Request(id) ==
  /\ session.rpcs[id].pc = "none"
  /\ session' = IF session.connection = 0
                THEN [session EXCEPT !.rpcs[id] = [pc |-> "done", resumed |-> 0,
                                                   by |-> "not connected"]]
                ELSE [session EXCEPT !.rpcs[id].pc = "beginRPC"]
  /\ UNCHANGED serverVars

\* beginRPC up to the completion of its send; send throws at once when
\* there is no connection, and failRPC resumes the continuation.
beginRPC(id) ==
  LET pending == [session EXCEPT !.pendingRPC = @ \cup {id}]
  IN /\ session.rpcs[id].pc = "beginRPC"
     /\ session' = IF session.connection = 0
                   THEN ResumePending(pending, id, "send")
                   ELSE [pending EXCEPT !.rpcs[id].pc = "sending"]
     /\ UNCHANGED serverVars

\* The send of the request completes.
RequestSent(id, ok) ==
  /\ session.rpcs[id].pc = "sending"
  /\ session' = IF ok THEN [session EXCEPT !.rpcs[id].pc = "waiting"]
                ELSE ResumePending(session, id, "send")
  /\ UNCHANGED serverVars

\* timeoutSeconds after the request: timeoutRPC.
timeoutRPC(id) ==
  /\ session.rpcs[id].pc \in {"sending", "waiting"}
  /\ session' = ResumePending(session, id, "timeout")
  /\ UNCHANGED serverVars

\* The network: a ready connection fails.
ConnectionFails(k) ==
  /\ session.net[k].state = "ready"
  /\ session' = [session EXCEPT !.net[k].state = "failed",
                                !.net[k].notice = @ \/ session.net[k].handler]
  /\ UNCHANGED serverVars

\* handleConnectionState(.failed) and (.cancelled), in the task the state
\* handler starts.
handleConnectionState(k) ==
  /\ session.net[k].notice
  /\ session' = disconnect([session EXCEPT !.net[k].notice = FALSE])
  /\ UNCHANGED serverVars

\* The owner of the session calls disconnect().
DisconnectCalled ==
  /\ session' = disconnect(session)
  /\ session' # session
  /\ UNCHANGED serverVars

InitBridge ==
  /\ session = IdleSession
  /\ conn = [c \in Conns |-> NoConn]
  /\ connections = [n \in NodeNames |-> NoConnection]
  /\ pairing = InitPairing
  /\ callbacks = {}
  /\ invokes = [i \in InvokeIds |-> NoInvoke]

\* listConnected(): the nodeInfo of every entry of the connection table.
listConnected == {connections[n] : n \in {m \in NodeNames : connections[m].socket # 0}}

\* crypto.randomUUID(): an id that was never handed out before.
FreshRunIds == {r \in RunIds : r = nextRun}

randomRunId == nextRun

FreshUuids == {n \in 1..MaxSessions : n = nextUuid}

randomUUID == nextUuid

\* A new invocation takes the first free slot.
Free(p) ==
  /\ call[p].pc = "idle"
  /\ \A q \in Procs : q < p => call[q].pc # "idle"

\* ------------------------------------------------------------------ spawn engine
DEFAULT_MAX_SPAWN_DEPTH == 1
DEFAULT_MAX_CHILDREN == 5
Undefined == 0 - 1

maxSpawnDepthOf(c) ==
  IF c.maxSpawnDepth = Undefined THEN DEFAULT_MAX_SPAWN_DEPTH ELSE c.maxSpawnDepth

maxChildrenOf(c) ==
  IF c.maxChildrenPerAgent = Undefined THEN DEFAULT_MAX_CHILDREN
  ELSE c.maxChildrenPerAgent

DepthRejectsOffByOne(callerDepth, maxSpawnDepth) == callerDepth > maxSpawnDepth

DepthRejects(callerDepth, maxSpawnDepth) == callerDepth >= maxSpawnDepth

FanOutRejectsOffByOne(activeChildren, maxChildren) == activeChildren > maxChildren

FanOutRejects(activeChildren, maxChildren) == activeChildren >= maxChildren

AllowlistRejectsCaseSensitive(allowAgents, targetAgentId) ==
  LET allowAny == \E i \in 1..Len(allowAgents) : trim(allowAgents[i]) = <<"*">>
      allowSet == {trim(allowAgents[i]) :
                     i \in {j \in 1..Len(allowAgents) :
                              trim(allowAgents[j]) # <<>>
                              /\ trim(allowAgents[j]) # <<"*">>}}
  IN ~allowAny /\ targetAgentId \notin allowSet

\* The allowlist check of a target that differs from the requester's agent.
AllowlistRejects(allowAgents, targetAgentId) ==
  LET allowAny == \E i \in 1..Len(allowAgents) : trim(allowAgents[i]) = <<"*">>
      normalizedTargetId == toLowerCase(targetAgentId)
      allowSet == {toLowerCase(normalizeAgentId(allowAgents[i])) :
                     i \in {j \in 1..Len(allowAgents) :
                              trim(allowAgents[j]) # <<>>
                              /\ trim(allowAgents[j]) # <<"*">>}}
  IN ~allowAny /\ normalizedTargetId \notin allowSet

requesterAgentIdOf(req) == normalizeAgentId(parseAgentSessionKey(req).agentId)

targetAgentIdOf(req, requestedAgentId) ==
  IF requestedAgentId # <<>> THEN normalizeAgentId(requestedAgentId)
  ELSE requesterAgentIdOf(req)

thinkingCandidateSilentFallback(c, targetAgentId, thinkingOverrideRaw) ==
  IF thinkingOverrideRaw # "" THEN thinkingOverrideRaw
  ELSE normalizeThinkLevel(c.subagentThinking[targetAgentId])

thinkingCandidateRawOf(c, targetAgentId, thinkingOverrideRaw) ==
  LET resolvedThinkingDefaultRaw ==
        IF c.subagentThinking[targetAgentId] # ""
        THEN c.subagentThinking[targetAgentId]
        ELSE c.defaultsSubagentThinking
  IN IF thinkingOverrideRaw # "" THEN thinkingOverrideRaw
     ELSE resolvedThinkingDefaultRaw

ErrDepth == <<"sessions_spawn is not allowed at this depth">>
ErrChildren == <<"sessions_spawn has reached max active children for this session">>
ErrAllow == <<"agentId is not allowed for sessions_spawn">>
ErrThinking == <<"Invalid thinking level">>

\* return {status, error}: nothing was done.
RejectSilently(p, frame, status, error) ==
  Return(p, frame, [NoResult EXCEPT !.status = status])

Reject(p, frame, status, error) ==
  Return(p, frame, [NoResult EXCEPT !.status = status, !.error = error])

runTimeoutSecondsUnfloored(raw) ==
  IF raw = NotFinite THEN 0 ELSE IF raw < 0 THEN 0 ELSE (raw + Tenth - 1) \div Tenth

\* Math.max(0, Math.floor(params.runTimeoutSeconds)) of a finite number, else 0.
runTimeoutSecondsOf(raw) ==
  IF raw = NotFinite THEN 0 ELSE IF raw \div Tenth < 0 THEN 0 ELSE raw \div Tenth

admissionFanOutFirst(c, callerDepth, activeChildren, requesterAgentId, targetAgentId) ==
  IF FanOutRejects(activeChildren, maxChildrenOf(c)) THEN ErrChildren
  ELSE IF DepthRejects(callerDepth, maxSpawnDepthOf(c)) THEN ErrDepth
  ELSE IF targetAgentId # requesterAgentId
          /\ AllowlistRejects(c.allowAgents[requesterAgentId], targetAgentId)
  THEN ErrAllow
  ELSE <<>>

\* The admission checks in the order of the code; the error of the first one
\* that rejects, <<>> when the request is admitted.
admission(c, callerDepth, activeChildren, requesterAgentId, targetAgentId) ==
  IF DepthRejects(callerDepth, maxSpawnDepthOf(c)) THEN ErrDepth
  ELSE IF FanOutRejects(activeChildren, maxChildrenOf(c)) THEN ErrChildren
  ELSE IF targetAgentId # requesterAgentId
          /\ AllowlistRejects(c.allowAgents[requesterAgentId], targetAgentId)
  THEN ErrAllow
  ELSE <<>>

\* spawnSubagentDirect up to its first await: the admission checks, the
\* thinking-level validation and the sessions.patch of spawnDepth it issues.
SpawnBegin(p, req, args) ==
  LET callerDepth == getSubagentDepthFromSessionStore(store, req)
      activeChildren == countActiveRunsForSession(subagentRuns, req)
      requesterAgentId == requesterAgentIdOf(req)
      targetAgentId == targetAgentIdOf(req, args.agentId)
      candidate == thinkingCandidateRawOf(cfg, targetAgentId, args.thinking)
      frame == [IdleCall EXCEPT !.kind = "spawn", !.req = req, !.args = args]
      reject(status, error) == Reject(p, frame, status, error)
      forbidden == admission(cfg, callerDepth, activeChildren, requesterAgentId,
                             targetAgentId)
  IN /\ Free(p)
     /\ IF forbidden # <<>>
        THEN reject("forbidden", forbidden)
        ELSE IF candidate # "" /\ normalizeThinkLevel(candidate) = ""
        THEN reject("error", ErrThinking)
        ELSE /\ FreshUuids # {}
             /\ Suspend(p,
                  [frame EXCEPT
                     !.pc = "patchDepth",
                     !.child = [agent |-> targetAgentId, id |-> randomUUID],
                     !.childDepth = callerDepth + 1,
                     !.runTimeoutSeconds = runTimeoutSecondsOf(args.runTimeoutSeconds),
                     !.model = resolvedModelOf(cfg, targetAgentId, args.model),
                     !.thinking = IF candidate # "" THEN normalizeThinkLevel(candidate)
                                  ELSE "",
                     !.trace = <<"sessions.patch:spawnDepth">>])
     /\ UNCHANGED <<cfg, subagentRuns, store>>

\* The gateway's sessions.patch {key, spawnDepth}: the child session exists.
GatewayPatchSpawnDepth(st, key, depth) ==
  [st EXCEPT ![key] = [@ EXCEPT !.exists = TRUE, !.spawnDepth = depth]]

\* The gateway's agent {sessionKey, spawnedBy}: the run is launched on the
\* session, which has a session id from then on.
GatewayLaunch(st, key, spawnedBy) ==
  [st EXCEPT ![key] = [@ EXCEPT !.exists = TRUE, !.sessionId = TRUE,
                                !.spawnedBy = IF spawnedBy = NoKey THEN @
                                              ELSE spawnedBy]]

SpawnErrorWithoutKey(frame, messageText, runId) ==
  [NoResult EXCEPT !.status = "error", !.error = messageText, !.runId = runId]

SpawnError(frame, messageText, runId) ==
  [NoResult EXCEPT !.status = "error", !.error = messageText,
                   !.childSessionKey = frame.child, !.runId = runId]

\* const childIdem = crypto.randomUUID(); await callGateway({method: "agent"}).
AGENT_LANE_SUBAGENT == "subagent"

\* The params of the agent call of spawnSubagentDirect.
spawnAgentParams(frame) ==
  [deliver |-> FALSE, lane |-> AGENT_LANE_SUBAGENT,
   timeout |-> frame.runTimeoutSeconds, spawnedBy |-> frame.req]

\* The params of the agent call of send and steer.
messageAgentParams(frame) ==
  [deliver |-> FALSE, lane |-> AGENT_LANE_SUBAGENT, timeout |-> 0,
   spawnedBy |-> NoKey]

LaunchAgent(p, frame) ==
  /\ FreshRunIds # {}
  /\ Suspend(p, [frame EXCEPT !.pc = "agent", !.runId = randomRunId,
                              !.agentParams = IF frame.kind = "spawn"
                                              THEN spawnAgentParams(frame)
                                              ELSE messageAgentParams(frame),
                              !.trace = Append(frame.trace, "agent")])

AfterModelPatchLaunching(p, frame) == LaunchAgent(p, frame)

\* From the end of the model patch to the next await.
AfterModelPatch(p, frame) ==
  IF frame.thinking # ""
  THEN Suspend(p, [frame EXCEPT
                     !.pc = "patchThinking",
                     !.trace = Append(frame.trace, "sessions.patch:thinkingLevel")])
  ELSE LaunchAgent(p, frame)

\* The sessions.patch of spawnDepth settles.
SpawnDepthPatched(p, outcome) ==
  LET frame == call[p]
  IN /\ frame.kind = "spawn" /\ frame.pc = "patchDepth"
     /\ IF outcome # Ok
        THEN /\ Return(p, Rejecting(frame, outcome), SpawnError(frame, messageTextOf(outcome), 0))
             /\ UNCHANGED store
        ELSE /\ store' = GatewayPatchSpawnDepth(store, frame.child, frame.childDepth)
             /\ IF frame.model # <<>>
                THEN Suspend(p, [frame EXCEPT
                                   !.pc = "patchModel",
                                   !.trace = Append(frame.trace, "sessions.patch:model")])
                ELSE AfterModelPatch(p, frame)
     /\ UNCHANGED <<cfg, subagentRuns>>

recoverableInvalidOnly(messageText) ==
  includes(messageText, <<"invalid", "model">>)

recoverable(messageText) ==
  includes(messageText, <<"invalid", "model">>)
  \/ includes(messageText, <<"model", "not", "allowed">>)

\* The sessions.patch of model settles.
SpawnModelPatched(p, outcome) ==
  LET frame == call[p]
      messageText == messageTextOf(outcome)
  IN /\ frame.kind = "spawn" /\ frame.pc = "patchModel"
     /\ IF outcome = Ok
        THEN AfterModelPatch(p, [frame EXCEPT !.modelApplied = TRUE])
        ELSE IF ~recoverable(messageText)
        THEN Return(p, Rejecting(frame, outcome), SpawnError(frame, messageText, 0))
        ELSE AfterModelPatch(p, [Rejecting(frame, outcome) EXCEPT
                                   !.modelWarning = messageText])
     /\ UNCHANGED <<cfg, subagentRuns, store>>

\* The sessions.patch of thinkingLevel settles.
SpawnThinkingPatched(p, outcome) ==
  LET frame == call[p]
  IN /\ frame.kind = "spawn" /\ frame.pc = "patchThinking"
     /\ IF outcome # Ok
        THEN Return(p, Rejecting(frame, outcome), SpawnError(frame, messageTextOf(outcome), 0))
        ELSE LaunchAgent(p, frame)
     /\ UNCHANGED <<cfg, subagentRuns, store>>

\* The agent launch settles: on success the run is registered and the spawn
\* is accepted.
SpawnAgentReturned(p, outcome) ==
  LET frame == call[p]
      childRunId == frame.runId
  IN /\ frame.kind = "spawn" /\ frame.pc = "agent"
     /\ IF outcome # Ok
        THEN /\ Return(p, Rejecting(frame, outcome),
                       SpawnError(frame, messageTextOf(outcome), childRunId))
             /\ UNCHANGED <<subagentRuns, store>>
        ELSE /\ store' = GatewayLaunch(store, frame.child, frame.agentParams.spawnedBy)
             /\ subagentRuns' = registerSubagentRun(subagentRuns,
                                  [Record(childRunId, frame.child, frame.req) EXCEPT
                                     !.runTimeoutSeconds = frame.runTimeoutSeconds])
             /\ Return(p, frame,
                  [NoResult EXCEPT
                     !.status = "accepted",
                     !.childSessionKey = frame.child,
                     !.runId = childRunId,
                     !.modelApplied =
                        IF frame.model = <<>> THEN "undefined"
                        ELSE IF frame.modelApplied THEN "true" ELSE "false",
                     !.warning = frame.modelWarning])
     /\ UNCHANGED cfg

\* ------------------------------------------------------------------ command surface
Reply(text) == [NoResult EXCEPT !.status = "reply", !.text = text]

\* {shouldContinue: false} without a reply.
Silent == [NoResult EXCEPT !.status = "silent"]

\* The handler's promise rejects: the error reaches the outer dispatcher.
Rejected(err) == [NoResult EXCEPT !.status = "throw", !.error = messageTextOf(err)]

\* resolveSubagentTarget over listSubagentRunsForRequester(requesterKey): the
\* token names one of the requester's runs, or nothing (run id 0).
Targets(req) ==
  {0} \cup {rec.runId : rec \in listSubagentRunsForRequester(subagentRuns, req)}

\* abort.js: every run in flight below the requester is stopped.  The walk
\* goes from the sessions of the frontier to the children of their runs and
\* leaves out the sessions it has been at; visits counts its stops at each
\* session.
RECURSIVE Descendants(_, _, _)
Descendants(runs, frontier, visits) ==
  IF frontier = {} THEN visits
  ELSE LET visited == [k \in SessionKeys |->
                         IF k \in frontier THEN visits[k] + 1 ELSE visits[k]]
           children == {runs[r].childSessionKey :
                          r \in {x \in RunIds : Has(runs, x)
                                   /\ runs[x].requesterSessionKey \in frontier}}
       IN Descendants(runs, {k \in children : visited[k] = 0}, visited)

stopSubagentsForRequesterChildrenOnly(runs, key) ==
  [r \in RunIds |->
     IF Has(runs, r) /\ runs[r].requesterSessionKey = key /\ ~runs[r].ended
     THEN [runs[r] EXCEPT !.ended = TRUE, !.outcome = "killed"]
     ELSE runs[r]]

stopSubagentsForRequester(runs, key) ==
  LET visits == Descendants(runs, {key}, [k \in SessionKeys |-> 0])
  IN [r \in RunIds |->
        IF Has(runs, r) /\ visits[runs[r].requesterSessionKey] > 0 /\ ~runs[r].ended
        THEN [runs[r] EXCEPT !.ended = TRUE, !.outcome = "killed"]
        ELSE runs[r]]

KillRejectsEndedNever(entry) == FALSE

\* resolved.entry.endedAt
KillRejectsEnded(entry) == entry.ended

\* /subagents kill <target|all>, up to its await of updateSessionStore.
KillBegin(p, req, all, rid) ==
  LET entry == subagentRuns[rid]
      childKey == entry.childSessionKey
      sessionEntry == store[childKey]
      frame == [IdleCall EXCEPT !.kind = "kill", !.req = req, !.target = rid]
      effects == (IF sessionEntry.sessionId THEN <<"abortEmbeddedPiRun">> ELSE <<>>)
                 \o <<"clearSessionQueues">>
  IN /\ Free(p)
     /\ IF all
        THEN /\ rid = 0
             /\ subagentRuns' = stopSubagentsForRequester(subagentRuns, req)
             /\ Return(p, [frame EXCEPT !.trace = <<"stopSubagentsForRequester">>],
                       Silent)
        ELSE IF rid = 0
        THEN /\ Return(p, frame, Reply(<<"Unknown subagent">>))
             /\ UNCHANGED subagentRuns
        ELSE IF KillRejectsEnded(entry)
        THEN /\ Return(p, frame, Reply(<<"is already finished.">>))
             /\ UNCHANGED subagentRuns
        ELSE IF sessionEntry.exists
        THEN /\ Suspend(p, [frame EXCEPT
                              !.pc = "storeUpdate", !.child = childKey,
                              !.trace = effects \o <<"updateSessionStore">>])
             /\ UNCHANGED subagentRuns
        ELSE /\ subagentRuns' =
                  stopSubagentsForRequester(
                    markSubagentRunTerminated(subagentRuns, rid, "killed"), childKey)
             /\ Return(p, [frame EXCEPT
                             !.child = childKey,
                             !.trace = effects \o <<"markSubagentRunTerminated",
                                                    "stopSubagentsForRequester">>],
                       Silent)
     /\ UNCHANGED <<cfg, store>>

\* updateSessionStore settles: the record is marked and the kill cascades.
KillStoreUpdated(p, outcome) ==
  LET frame == call[p]
  IN /\ frame.kind = "kill" /\ frame.pc = "storeUpdate"
     /\ IF outcome # Ok
        THEN /\ Return(p, Rejecting(frame, outcome), Rejected(outcome))
             /\ UNCHANGED <<subagentRuns, store>>
        ELSE /\ store' = [store EXCEPT ![frame.child].abortedLastRun = TRUE]
             /\ subagentRuns' =
                  stopSubagentsForRequester(
                    markSubagentRunTerminated(subagentRuns, frame.target, "killed"),
                    frame.child)
             /\ Return(p, [frame EXCEPT
                             !.trace = frame.trace \o <<"markSubagentRunTerminated",
                                                        "stopSubagentsForRequester">>],
                       Silent)
     /\ UNCHANGED cfg

SteerRejectsEndedNever(entry) == FALSE

\* steerRequested && resolved.entry.endedAt
SteerRejectsEnded(entry) == entry.ended

steerInterruptAbortFirst(targetSessionId) ==
  (IF targetSessionId THEN <<"abortEmbeddedPiRun">> ELSE <<>>)
  \o <<"markSubagentRunForSteerRestart", "clearSessionQueues", "agent.wait">>

\* if (steerRequested): what a steer does to the run in flight, in the
\* order of the code, up to the call of agent.wait.
steerInterrupt(targetSessionId) ==
  <<"markSubagentRunForSteerRestart">>
  \o (IF targetSessionId THEN <<"abortEmbeddedPiRun">> ELSE <<>>)
  \o <<"clearSessionQueues", "agent.wait">>

\* /subagents steer <target> <message> (also /steer and /tell), up to its
\* await of agent.wait.
SteerBegin(p, req, rid) ==
  LET entry == subagentRuns[rid]
      targetSessionEntry == store[entry.childSessionKey]
      frame == [IdleCall EXCEPT !.kind = "steer", !.req = req, !.target = rid]
  IN /\ Free(p)
     /\ IF rid = 0
        THEN /\ Return(p, frame, Reply(<<"Unknown subagent">>))
             /\ UNCHANGED subagentRuns
        ELSE IF SteerRejectsEnded(entry)
        THEN /\ Return(p, frame, Reply(<<"is already finished.">>))
             /\ UNCHANGED subagentRuns
        ELSE /\ subagentRuns' = markSubagentRunForSteerRestart(subagentRuns, rid)
             /\ Suspend(p, [frame EXCEPT
                   !.pc = "wait", !.child = entry.childSessionKey,
                   !.runTimeoutSeconds = entry.runTimeoutSeconds,
                   !.trace = steerInterrupt(targetSessionEntry.sessionId)])
     /\ UNCHANGED <<cfg, store>>

SteerWaitFatal(p, outcome) ==
  LET frame == call[p]
  IN /\ frame.kind = "steer" /\ frame.pc = "wait"
     /\ IF outcome # Ok
        THEN Return(p, Rejecting(frame, outcome), Rejected(outcome))
        ELSE LaunchAgent(p, frame)
     /\ UNCHANGED <<cfg, subagentRuns, store>>

\* The settle-wait ends, whatever its outcome; the replacement run is launched.
SteerWaitSettled(p, outcome) ==
  LET frame == call[p]
  IN /\ frame.kind = "steer" /\ frame.pc = "wait"
     /\ LaunchAgent(p, IF outcome # Ok THEN Rejecting(frame, outcome) ELSE frame)
     /\ UNCHANGED <<cfg, subagentRuns, store>>

SteerRollbackSkipped(runs, runId) == runs

\* if (steerRequested) clearSubagentRunSteerRestart(resolved.entry.runId).
SteerRollback(runs, runId) == clearSubagentRunSteerRestart(runs, runId)

\* The relaunch settles: the record is replaced, or the restart mark is
\* rolled back.
SteerAgentReturned(p, outcome) ==
  LET frame == call[p]
      fallback == [Record(frame.target, frame.child, frame.req) EXCEPT
                     !.runTimeoutSeconds = frame.runTimeoutSeconds]
  IN /\ frame.kind = "steer" /\ frame.pc = "agent"
     /\ IF outcome # Ok
        THEN /\ subagentRuns' = SteerRollback(subagentRuns, frame.target)
             /\ Return(p, [Rejecting(frame, outcome) EXCEPT
                             !.trace = Append(frame.trace, "clearSubagentRunSteerRestart")],
                       Reply(<<"send failed:">> \o messageTextOf(outcome)))
             /\ UNCHANGED store
        ELSE /\ store' = GatewayLaunch(store, frame.child, NoKey)
             /\ subagentRuns' =
                  replaceSubagentRunAfterSteer(subagentRuns, frame.target, frame.runId,
                                               fallback)
             /\ Return(p, [frame EXCEPT
                             !.trace = Append(frame.trace, "replaceSubagentRunAfterSteer")],
                       [Reply(<<"steered">>) EXCEPT !.runId = frame.runId])
     /\ UNCHANGED cfg

\* /subagents send <target> <message>, up to its await of the agent call.
SendBegin(p, req, rid) ==
  LET entry == subagentRuns[rid]
      frame == [IdleCall EXCEPT !.kind = "send", !.req = req, !.target = rid]
  IN /\ Free(p)
     /\ IF rid = 0
        THEN Return(p, frame, Reply(<<"Unknown subagent">>))
        ELSE LaunchAgent(p, [frame EXCEPT !.child = entry.childSessionKey])
     /\ UNCHANGED <<cfg, subagentRuns, store>>

\* The send path taking the steer branch after its agent call.
SendAgentReturnedReplacing(p, outcome) ==
  LET frame == call[p]
  IN /\ frame.kind = "send" /\ frame.pc = "agent"
     /\ IF outcome # Ok
        THEN /\ Return(p, Rejecting(frame, outcome),
                       Reply(<<"send failed:">> \o messageTextOf(outcome)))
             /\ UNCHANGED <<store, subagentRuns>>
        ELSE /\ store' = GatewayLaunch(store, frame.child, NoKey)
             /\ subagentRuns' =
                  replaceSubagentRunAfterSteer(
                    subagentRuns, frame.target, frame.runId,
                    Record(frame.target, frame.child, frame.req))
             /\ Suspend(p, [frame EXCEPT !.pc = "wait",
                                         !.trace = Append(frame.trace, "agent.wait")])
     /\ UNCHANGED cfg

SendAgentReturned(p, outcome) ==
  LET frame == call[p]
  IN /\ frame.kind = "send" /\ frame.pc = "agent"
     /\ IF outcome # Ok
        THEN /\ Return(p, Rejecting(frame, outcome),
                       Reply(<<"send failed:">> \o messageTextOf(outcome)))
             /\ UNCHANGED store
        ELSE /\ store' = GatewayLaunch(store, frame.child, NoKey)
             /\ Suspend(p, [frame EXCEPT !.pc = "wait",
                                         !.trace = Append(frame.trace, "agent.wait")])
     /\ UNCHANGED <<cfg, subagentRuns>>

\* agent.wait resolves with {status, error?} or rejects (status "throw"); an
\* error of <<>> is one that is not a string.
WaitResult(status, error) == [status |-> status, error |-> error]

WaitOutcomes ==
  {WaitResult("ok", <<>>), WaitResult("timeout", <<>>), WaitResult("error", <<>>),
   WaitResult("throw", <<>>)}

WaitReplyConflated(wait) ==
  IF wait.status \in {"timeout", "error"} THEN <<"Subagent still running">> ELSE <<>>

\* The reply made of the result of agent.wait; <<>> when the command goes on
\* to chat.history.
WaitReply(wait) ==
  IF wait.status = "timeout" THEN <<"Subagent still running">>
  ELSE IF wait.status = "error"
  THEN <<"Subagent error:">>
       \o (IF wait.error # <<>> THEN wait.error ELSE <<"unknown", "error">>)
  ELSE <<>>

SendWaitReturned(p, wait) ==
  LET frame == call[p]
      result == [Reply(<<>>) EXCEPT !.runId = frame.runId]
  IN /\ frame.kind = "send" /\ frame.pc = "wait"
     /\ IF wait.status = "throw"
        THEN Return(p, Rejecting(frame, Thrown("Error", <<"gateway", "timeout">>)),
                    Rejected(Thrown("Error", <<"gateway", "timeout">>)))
        ELSE IF WaitReply(wait) # <<>>
        THEN Return(p, frame, [result EXCEPT !.text = WaitReply(wait)])
        ELSE Suspend(p, [frame EXCEPT !.pc = "history",
                                      !.trace = Append(frame.trace, "chat.history")])
     /\ UNCHANGED <<cfg, subagentRuns, store>>

\* chat.history settles; replyText is the text of the last message that is
\* not a tool message, <<>> if there is none.
SendHistoryReturned(p, outcome, replyText) ==
  LET frame == call[p]
  IN /\ frame.kind = "send" /\ frame.pc = "history"
     /\ IF outcome # Ok
        THEN Return(p, Rejecting(frame, outcome), Rejected(outcome))
        ELSE Return(p, frame,
                    [Reply(IF replyText # <<>> THEN replyText ELSE <<"Sent to">>)
                       EXCEPT !.runId = frame.runId])
     /\ UNCHANGED <<cfg, subagentRuns, store>>

LOG_DEFAULT_LIMIT == 20
LOG_MAX_LIMIT == 200

\* limitToken ? Math.min(200, Math.max(1, Number.parseInt(limitToken, 10))) : 20,
\* limitToken being the first of restTokens that is all digits.
logLimit(restTokens) ==
  LET digits == SelectSeq(restTokens, isDigits)
      given == parseInt(digits[1])
  IN IF digits = <<>> THEN LOG_DEFAULT_LIMIT
     ELSE IF given < 1 THEN 1
     ELSE IF given > LOG_MAX_LIMIT THEN LOG_MAX_LIMIT
     ELSE given

\* /subagents log <target> [limit] [tools], up to its await of chat.history;
\* rid is the run restTokens[1] resolves to.
LogBegin(p, req, rid, restTokens) ==
  LET entry == subagentRuns[rid]
      frame == [IdleCall EXCEPT !.kind = "log", !.req = req, !.target = rid,
                                !.args.restTokens = restTokens]
  IN /\ Free(p)
     /\ IF rid = 0
        THEN Return(p, frame, Reply(<<"Unknown subagent">>))
        ELSE Suspend(p, [frame EXCEPT !.pc = "history",
                                      !.child = entry.childSessionKey,
                                      !.historyLimit = logLimit(restTokens),
                                      !.trace = <<"chat.history">>])
     /\ UNCHANGED <<cfg, subagentRuns, store>>

LogHistoryReturned(p, outcome) ==
  LET frame == call[p]
  IN /\ frame.kind = "log" /\ frame.pc = "history"
     /\ IF outcome # Ok
        THEN Return(p, Rejecting(frame, outcome), Rejected(outcome))
        ELSE Return(p, frame, Reply(<<"Subagent log:">>))
     /\ UNCHANGED <<cfg, subagentRuns, store>>

\* The command text: its prefix, the first token after /subagents, the kind
\* of target token that follows, and whether its sender is authorized.
COMMAND == "/subagents"
COMMAND_KILL == "/kill"
COMMAND_STEER == "/steer"
COMMAND_TELL == "/tell"
ACTIONS_SET == {"list", "kill", "log", "send", "steer", "info", "spawn", "help"}

WordLower(word) ==
  CASE word = "Kill" -> "kill"
    [] word = "STEER" -> "steer"
    [] OTHER -> word

actionOf(handledPrefix, actionRaw) ==
  IF handledPrefix = COMMAND
  THEN IF actionRaw = "" THEN "list" ELSE WordLower(actionRaw)
  ELSE IF handledPrefix = COMMAND_KILL THEN "kill"
  ELSE "steer"

AuthorizedAlways(cmd) == TRUE

\* params.command.isAuthorizedSender
Authorized(cmd) == cmd.authorized

\* A reply made without an await: help, usage, list, info.
ReplyNow(p, req, kind, text) ==
  /\ Free(p)
  /\ Return(p, [IdleCall EXCEPT !.kind = kind, !.req = req], Reply(text))
  /\ UNCHANGED <<cfg, subagentRuns, store>>

\* subagents-utils.js: the runs newest first; runs of one age keep the order
\* of the registry.
sortSubagentRuns(runs) ==
  LET ids == {rec.runId : rec \in runs}
      byId == [r \in ids |-> CHOOSE rec \in runs : rec.runId = r]
      Newer(a, b) == \/ byId[a].createdAt > byId[b].createdAt
                     \/ byId[a].createdAt = byId[b].createdAt /\ a < b
      Rank(r) == 1 + Cardinality({x \in ids : Newer(x, r)})
  IN [i \in 1..Cardinality(ids) |-> byId[CHOOSE r \in ids : Rank(r) = i]]

RECENT_WINDOW_MINUTES == 30

numericOrderWithoutWindow(runs, now) ==
  LET sorted == sortSubagentRuns(runs)
  IN SelectSeq(sorted, LAMBDA entry : ~entry.ended)
     \o SelectSeq(sorted, LAMBDA entry : entry.ended)

\* The order the index tokens count in.
numericOrder(runs, now) ==
  LET sorted == sortSubagentRuns(runs)
      recentCutoff == now - RECENT_WINDOW_MINUTES
  IN SelectSeq(sorted, LAMBDA entry : ~entry.ended)
     \o SelectSeq(sorted, LAMBDA entry : entry.ended /\ entry.endedAt >= recentCutoff)

\* resolveSubagentTarget for a token of digits: the run id, or 0 for
\* "Invalid subagent index".
resolveSubagentTarget(runs, idx, now) ==
  IF idx <= 0 \/ idx > Len(numericOrder(runs, now)) THEN 0
  ELSE numericOrder(runs, now)[idx].runId

\* subagents-utils.js: the label of a run, the task standing in for a label
\* left out.
formatRunLabel(entry) ==
  IF trim(entry.label) # <<>> THEN trim(entry.label) ELSE trim(entry.task)

\* s.startsWith(prefix)
startsWith(s, prefix) ==
  Len(prefix) <= Len(s) /\ SubSeq(s, 1, Len(prefix)) = prefix

\* The text of a run id and of a session key.
DigitChar(n) == CHOOSE c \in {"0", "1", "2", "3", "4", "5", "6", "7", "8", "9"} :
                  DigitValue(c) = n

runIdText(runId) == <<IF runId <= 2 THEN "a" ELSE "b", DigitChar(runId)>>

sessionKeyText(key) == key.agent \o <<":", DigitChar(key.id)>>

NoTarget == [entry |-> 0, error |-> ""]

\* The last three stages of resolveSubagentTarget, taking the first match of
\* a stage that matches several runs.
resolveSubagentLabelFirstMatch(runs, trimmed) ==
  LET lowered == toLowerCase(trimmed)
      byLabel == {entry \in runs : toLowerCase(formatRunLabel(entry)) = lowered}
      byLabelPrefix ==
        {entry \in runs : startsWith(toLowerCase(formatRunLabel(entry)), lowered)}
      byRunId == {entry \in runs : startsWith(runIdText(entry.runId), trimmed)}
      First(matches) ==
        (CHOOSE entry \in matches :
           \A other \in matches : entry.runId <= other.runId).runId
  IN IF byLabel # {} THEN [NoTarget EXCEPT !.entry = First(byLabel)]
     ELSE IF byLabelPrefix # {} THEN [NoTarget EXCEPT !.entry = First(byLabelPrefix)]
     ELSE IF byRunId # {} THEN [NoTarget EXCEPT !.entry = First(byRunId)]
     ELSE [NoTarget EXCEPT !.error = "Unknown subagent id"]

\* The last three stages of resolveSubagentTarget: the label, a prefix of
\* the label, a prefix of the run id.
resolveSubagentLabel(runs, trimmed) ==
  LET lowered == toLowerCase(trimmed)
      byLabel == {entry \in runs : toLowerCase(formatRunLabel(entry)) = lowered}
      byLabelPrefix ==
        {entry \in runs : startsWith(toLowerCase(formatRunLabel(entry)), lowered)}
      byRunId == {entry \in runs : startsWith(runIdText(entry.runId), trimmed)}
      Only(matches) == (CHOOSE entry \in matches : TRUE).runId
  IN IF Cardinality(byLabel) = 1 THEN [NoTarget EXCEPT !.entry = Only(byLabel)]
     ELSE IF Cardinality(byLabel) > 1
     THEN [NoTarget EXCEPT !.error = "Ambiguous subagent label"]
     ELSE IF Cardinality(byLabelPrefix) = 1
     THEN [NoTarget EXCEPT !.entry = Only(byLabelPrefix)]
     ELSE IF Cardinality(byLabelPrefix) > 1
     THEN [NoTarget EXCEPT !.error = "Ambiguous subagent label prefix"]
     ELSE IF Cardinality(byRunId) = 1 THEN [NoTarget EXCEPT !.entry = Only(byRunId)]
     ELSE IF Cardinality(byRunId) > 1
     THEN [NoTarget EXCEPT !.error = "Ambiguous run id prefix"]
     ELSE [NoTarget EXCEPT !.error = "Unknown subagent id"]

\* resolveSubagentTarget for every token.
resolveSubagentToken(runs, token, now) ==
  LET trimmed == trim(token)
      sorted == sortSubagentRuns(runs)
      byKey == {entry \in runs : sessionKeyText(entry.childSessionKey) = trimmed}
  IN IF trimmed = <<>> THEN [NoTarget EXCEPT !.error = "Missing subagent id."]
     ELSE IF trimmed = <<"l", "a", "s", "t">>
     THEN IF sorted = <<>> THEN NoTarget
          ELSE [NoTarget EXCEPT !.entry = sorted[1].runId]
     ELSE IF isDigits(trimmed)
     THEN IF resolveSubagentTarget(runs, parseInt(trimmed), now) = 0
          THEN [NoTarget EXCEPT !.error = "Invalid subagent index"]
          ELSE [NoTarget EXCEPT
                  !.entry = resolveSubagentTarget(runs, parseInt(trimmed), now)]
     ELSE IF \E i \in 1..Len(trimmed) : trimmed[i] = ":"
     THEN IF byKey = {} THEN [NoTarget EXCEPT !.error = "Unknown subagent session"]
          ELSE [NoTarget EXCEPT !.entry = (CHOOSE entry \in byKey : TRUE).runId]
     ELSE resolveSubagentLabel(runs, trimmed)

\* /subagents log with its target resolved from restTokens[1].
LogCommand(p, req, restTokens) ==
  LET runs == listSubagentRunsForRequester(subagentRuns, req)
      resolved == resolveSubagentToken(runs, restTokens[1], 0)
      frame == [IdleCall EXCEPT !.kind = "log", !.req = req,
                                !.args.restTokens = restTokens]
  IN IF resolved.entry = 0
     THEN /\ Free(p)
          /\ Return(p, frame,
                    Reply(<<IF resolved.error = "" THEN "Unknown subagent."
                            ELSE resolved.error>>))
          /\ UNCHANGED <<cfg, subagentRuns, store>>
     ELSE LogBegin(p, req, resolved.entry, restTokens)

\* The numbered lines of the list reply: the active section, then the recent
\* one, the index running on.
listLines(runs, now) ==
  LET sorted == sortSubagentRuns(runs)
      recentCutoff == now - RECENT_WINDOW_MINUTES
      active == SelectSeq(sorted, LAMBDA entry : ~entry.ended)
      recent == SelectSeq(sorted, LAMBDA entry :
                            entry.ended /\ entry.endedAt >= recentCutoff)
  IN [i \in 1..Len(active) |-> [index |-> i, section |-> "active",
                                 runId |-> active[i].runId]]
     \o [i \in 1..Len(recent) |-> [index |-> Len(active) + i, section |-> "recent",
                                    runId |-> recent[i].runId]]

\* /subagents list at clock reading now: the reply names the runs line by line.
ListAt(p, req, now) ==
  LET lines == listLines(listSubagentRunsForRequester(subagentRuns, req), now)
  IN ReplyNow(p, req, "list",
              <<"active subagents:">>
              \o [i \in 1..Len(lines) |-> ToString(lines[i].runId)])

\* /subagents info <idx> at clock reading now.
InfoAt(p, req, idx, now) ==
  LET rid == resolveSubagentTarget(listSubagentRunsForRequester(subagentRuns, req),
                                   idx, now)
  IN /\ Free(p)
     /\ Return(p, [IdleCall EXCEPT !.kind = "info", !.req = req, !.target = rid],
               Reply(IF rid = 0 THEN <<"Invalid subagent index">>
                     ELSE <<"Subagent info", ToString(rid)>>))
     /\ UNCHANGED <<cfg, subagentRuns, store>>

\* The tokens after "/subagents spawn".  A token is a string; a token of one
\* character is also the text it stands for as an agent id or a model.
FLAG_MODEL == "--model"
FLAG_THINKING == "--thinking"

TextOf(token) == IF token = "" THEN <<>> ELSE <<token>>

\* The loop over restTokens from index i on: a flag followed by a token takes
\* that token, every other token is part of the task.
RECURSIVE parseSpawnFlags(_, _, _)
parseSpawnFlags(restTokens, i, acc) ==
  IF i > Len(restTokens) THEN acc
  ELSE IF restTokens[i] = FLAG_MODEL /\ i + 1 <= Len(restTokens)
  THEN parseSpawnFlags(restTokens, i + 2, [acc EXCEPT !.model = restTokens[i + 1]])
  ELSE IF restTokens[i] = FLAG_THINKING /\ i + 1 <= Len(restTokens)
  THEN parseSpawnFlags(restTokens, i + 2, [acc EXCEPT !.thinking = restTokens[i + 1]])
  ELSE parseSpawnFlags(restTokens, i + 1,
                       [acc EXCEPT !.taskParts = Append(@, restTokens[i])])

parseSpawnTokensFlagsInTask(restTokens) ==
  LET parsed == parseSpawnFlags(restTokens, 2,
                                [taskParts |-> <<>>, model |-> "", thinking |-> ""])
  IN [agentId |-> IF restTokens = <<>> THEN "" ELSE restTokens[1],
      task |-> IF restTokens = <<>> THEN <<>> ELSE Tail(restTokens),
      model |-> parsed.model, thinking |-> parsed.thinking]

\* agentId, task, model and thinking of /subagents spawn; "" is undefined.
parseSpawnTokens(restTokens) ==
  LET parsed == parseSpawnFlags(restTokens, 2,
                                [taskParts |-> <<>>, model |-> "", thinking |-> ""])
  IN [agentId |-> IF restTokens = <<>> THEN "" ELSE restTokens[1],
      task |-> parsed.taskParts,
      model |-> parsed.model, thinking |-> parsed.thinking]

\* /subagents spawn <agentId> <task> [--model <model>] [--thinking <level>],
\* up to the first await of spawnSubagentDirect.
SpawnFromTokens(p, req, restTokens) ==
  LET parsed == parseSpawnTokens(restTokens)
  IN IF parsed.agentId = "" \/ parsed.task = <<>>
     THEN ReplyNow(p, req, "spawn", <<"Usage:">>)
     ELSE SpawnBegin(p, req, [agentId |-> TextOf(parsed.agentId),
                              model |-> TextOf(parsed.model),
                              thinking |-> parsed.thinking,
                              command |-> TRUE, task |-> parsed.task,
                              restTokens |-> restTokens,
                              runTimeoutSeconds |-> NotFinite])

\* handleSubagentsCommand up to its first await.  rid is the run the target
\* token resolves to (0: none), args the parameters of a spawn.
HandleCommand(p, req, cmd, rid, args) ==
  LET action == actionOf(cmd.prefix, cmd.word)
  IN IF ~Authorized(cmd)
     THEN /\ Free(p)
          /\ Return(p, [IdleCall EXCEPT !.kind = "ignored", !.req = req], Silent)
          /\ UNCHANGED <<cfg, subagentRuns, store>>
     ELSE IF action \notin ACTIONS_SET \/ action = "help"
     THEN ReplyNow(p, req, "help", <<"Subagents", "Usage:">>)
     ELSE IF action = "list"
     THEN ListAt(p, req, 0)
     ELSE IF cmd.target = ""
     THEN ReplyNow(p, req, action, <<"Usage:">>)
     ELSE IF action = "kill"
     THEN IF cmd.target = "all" THEN KillBegin(p, req, TRUE, 0)
          ELSE KillBegin(p, req, FALSE, rid)
     ELSE IF action = "spawn"
     THEN SpawnBegin(p, req, args)
     ELSE LET resolved == IF cmd.target = "all" THEN 0 ELSE rid
          IN IF action = "info"
             THEN ReplyNow(p, req, "info",
                           IF resolved = 0 THEN <<"Unknown subagent">>
                           ELSE <<"Subagent info">>)
             ELSE IF action = "log"
             THEN LogBegin(p, req, resolved,
                           IF cmd.target = "all" THEN << <<"a", "l", "l">> >>
                           ELSE << <<"r">> >>)
             ELSE IF action = "send" THEN SendBegin(p, req, resolved)
             ELSE SteerBegin(p, req, resolved)

\* ------------------------------------------------------------------ specification
Configs ==
  [maxSpawnDepth : 1..MaxDepthCfg,
   maxChildrenPerAgent : 1..MaxChildrenCfg,
   allowAgents : {[a \in Agents |-> IF a = <<"m">> THEN << <<" ", "O", " ">> >> ELSE <<>>]},
   subagentModel : {[a \in Agents |-> ModelString(<<>>)]},
   defaultsSubagentModel : {ModelString(<<>>)},
   defaultsModelPrimary : {<<>>},
   subagentThinking : {[a \in Agents |-> ""]},
   defaultsSubagentThinking : {""}]

\* Sessions that issue commands: the root session and every child session
\* with a run in flight.
Requesters ==
  {Root} \cup {k \in SessionKeys :
                 \E r \in RunIds : /\ Has(subagentRuns, r)
                                    /\ subagentRuns[r].childSessionKey = k
                                    /\ ~subagentRuns[r].ended}

SpawnArgs ==
  [agentId : {<<>>, <<"b">>}, model : {<<>>}, thinking : {"", "high"},
   command : {FALSE}, task : {<<>>}, restTokens : {<<>>},
   runTimeoutSeconds : {NotFinite}]

PlainArgs == [agentId : {<<>>}, model : {<<>>}, thinking : {""}, command : {FALSE}, task : {<<>>}, restTokens : {<<>>},
   runTimeoutSeconds : {NotFinite}]

Outcomes == {Ok} \cup RpcFailures

Init ==
  /\ InitBridge
  /\ cfg \in Configs
  /\ subagentRuns = [r \in RunIds |-> NoRecord]
  /\ store = [k \in SessionKeys |-> NoEntry]
  /\ nextRun = 1
  /\ nextUuid = 1
  /\ call = [p \in Procs |-> IdleCall]
  /\ returned = NoReturn

SpawnNext(argsSet) ==
  \/ \E p \in Procs, req \in Requesters, args \in argsSet : SpawnBegin(p, req, args)
  \/ \E p \in Procs, outcome \in Outcomes : SpawnDepthPatched(p, outcome)
  \/ \E p \in Procs, outcome \in {Ok} \cup ModelPatchFailures :
       SpawnModelPatched(p, outcome)
  \/ \E p \in Procs, outcome \in Outcomes : SpawnAgentReturned(p, outcome)

ThinkingNext == \E p \in Procs, outcome \in Outcomes : SpawnThinkingPatched(p, outcome)

KillNext ==
  \/ \E p \in Procs, req \in Requesters : KillBegin(p, req, TRUE, 0)
  \/ \E p \in Procs, req \in Requesters : \E rid \in Targets(req) :
       KillBegin(p, req, FALSE, rid)
  \/ \E p \in Procs, outcome \in Outcomes : KillStoreUpdated(p, outcome)

SteerNext ==
  \/ \E p \in Procs, req \in Requesters : \E rid \in Targets(req) : SteerBegin(p, req, rid)
  \/ \E p \in Procs, outcome \in Outcomes : SteerWaitSettled(p, outcome)
  \/ \E p \in Procs, outcome \in Outcomes : SteerAgentReturned(p, outcome)

SendNext ==
  \/ \E p \in Procs, req \in Requesters : \E rid \in Targets(req) : SendBegin(p, req, rid)
  \/ \E p \in Procs, outcome \in Outcomes : SendAgentReturned(p, outcome)
  \/ \E p \in Procs, wait \in WaitOutcomes : SendWaitReturned(p, wait)
  \/ \E p \in Procs, outcome \in Outcomes : SendHistoryReturned(p, outcome, <<>>)

\* The spawn engine under every configuration, with kill to end runs.
Next == SpawnNext(SpawnArgs) \/ ThinkingNext \/ KillNext

Spec == Init /\ [][Next]_vars

\* The command surface: spawn, steer, send and kill interleaved.
CommandConfigs == {c \in Configs : c.maxSpawnDepth = 1 /\ c.maxChildrenPerAgent = MaxChildrenCfg}

InitCommands ==
  /\ InitBridge
  /\ cfg \in CommandConfigs
  /\ subagentRuns = [r \in RunIds |-> NoRecord]
  /\ store = [k \in SessionKeys |-> NoEntry]
  /\ nextRun = 1
  /\ nextUuid = 1
  /\ call = [p \in Procs |-> IdleCall]
  /\ returned = NoReturn

NextCommands == SpawnNext(PlainArgs) \/ KillNext \/ SteerNext \/ SendNext

SpecCommands == InitCommands /\ [][NextCommands]_vars

\* The admission checks of spawnSubagentDirect under every shape of
\* configuration: allowlists, thinking defaults and unset limits, with the
\* root session alone or with one child in flight.
AllowTokens ==
  {<<"o">>, <<"O">>, <<" ", "o", " ">>, <<"b">>, <<"m">>, <<"*">>, <<" ", "*">>, <<" ">>}

AllowLists == UNION {[1..n -> AllowTokens] : n \in 0..MaxAllow}

ThinkTokens == {"", "low", "bogus"}

AllowConfigs ==
  {[maxSpawnDepth |-> MaxDepthCfg, maxChildrenPerAgent |-> MaxChildrenCfg,
    allowAgents |-> [a \in Agents |-> list],
    subagentModel |-> [a \in Agents |-> ModelString(<<>>)],
    defaultsSubagentModel |-> ModelString(<<>>),
    defaultsModelPrimary |-> <<>>,
    subagentThinking |-> [a \in Agents |-> ""],
    defaultsSubagentThinking |-> ""] : list \in AllowLists}

ThinkingConfigs ==
  {[maxSpawnDepth |-> depth, maxChildrenPerAgent |-> children,
    allowAgents |-> [a \in Agents |-> << <<"*">> >>],
    subagentModel |-> [a \in Agents |-> ModelString(<<>>)],
    defaultsSubagentModel |-> ModelString(<<>>),
    defaultsModelPrimary |-> <<>>,
    subagentThinking |-> [a \in Agents |-> IF a = <<"o">> THEN perAgent ELSE ""],
    defaultsSubagentThinking |-> global] :
      depth \in {Undefined, MaxDepthCfg}, children \in {Undefined, 1},
      perAgent \in ThinkTokens, global \in ThinkTokens}

AdmissionArgs ==
  [agentId : {<<>>, <<"o">>, <<"O">>, <<" ", "o">>, <<"b">>, <<"M">>},
   model : {<<>>},
   thinking : {"", "high", "bogus"},
   command : {FALSE}, task : {<<>>}, restTokens : {<<>>},
   runTimeoutSeconds : {NotFinite}]

\* The root session has spawned the children 1..k, of agent kid, and their
\* runs are in flight.
SituationRuns(k, kid) ==
  [r \in RunIds |->
     IF r <= k THEN Record(r, [agent |-> kid, id |-> r], Root) ELSE NoRecord]

SituationStore(k, kid) ==
  [key \in SessionKeys |->
     IF key.agent = kid /\ key.id \in 1..k
     THEN [NoEntry EXCEPT !.exists = TRUE, !.spawnDepth = 1, !.spawnedBy = Root,
                          !.sessionId = TRUE]
     ELSE NoEntry]

InitAdmission ==
  /\ InitBridge
  /\ cfg \in AllowConfigs \cup ThinkingConfigs
  /\ \E k \in 0..(MaxSessions - 1), kid \in {<<"m">>, <<"o">>} :
        /\ k > 0 /\ kid # Root.agent
             => ~AllowlistRejects(cfg.allowAgents[Root.agent], kid)
        /\ k = 0 => kid = Root.agent
        /\ subagentRuns = SituationRuns(k, kid)
        /\ store = SituationStore(k, kid)
        /\ nextRun = k + 1
        /\ nextUuid = k + 1
  /\ call = [p \in Procs |-> IdleCall]
  /\ returned = NoReturn

NextAdmission ==
  \E req \in Requesters, args \in AdmissionArgs : SpawnBegin(1, req, args)

SpecAdmission == InitAdmission /\ [][NextAdmission]_vars

\* loadConfig() is read at every spawn, so the limits a request meets need not
\* be the ones its requester was spawned under.
OrderConfigs ==
  {[maxSpawnDepth |-> depth, maxChildrenPerAgent |-> children,
    allowAgents |-> [a \in Agents |-> list],
    subagentModel |-> [a \in Agents |-> ModelString(<<>>)],
    defaultsSubagentModel |-> ModelString(<<>>),
    defaultsModelPrimary |-> <<>>,
    subagentThinking |-> [a \in Agents |-> ""],
    defaultsSubagentThinking |-> ""] :
      depth \in 1..MaxDepthCfg, children \in 1..MaxChildrenCfg,
      list \in {<<>>, << <<"b">> >>, << <<"*">> >>}}

\* The chain root -> o:1 -> o:2 up to its k-th link: run r is the run of
\* session o:r, spawned by the session one link up, and is in flight.
ChainKey(n) == IF n = 0 THEN Root ELSE [agent |-> <<"o">>, id |-> n]

ChainRuns(k) ==
  [r \in RunIds |->
     IF r <= k THEN Record(r, ChainKey(r), ChainKey(r - 1)) ELSE NoRecord]

ChainStore(k) ==
  [key \in SessionKeys |->
     IF key.agent = <<"o">> /\ key.id \in 1..k
     THEN [NoEntry EXCEPT !.exists = TRUE, !.spawnDepth = key.id,
                          !.spawnedBy = ChainKey(key.id - 1), !.sessionId = TRUE]
     ELSE NoEntry]

InitOrder ==
  /\ InitBridge
  /\ cfg \in OrderConfigs
  /\ \E k \in 0..MaxSessions :
        /\ subagentRuns = ChainRuns(k)
        /\ store = ChainStore(k)
        /\ nextRun = k + 1
        /\ nextUuid = k + 1
  /\ call = [p \in Procs |-> IdleCall]
  /\ returned = NoReturn

SpecOrder == InitOrder /\ [][NextAdmission]_vars

\* The command handler as the dispatcher calls it: every prefix, action and
\* sender, over the runs the commands themselves create.
Commands ==
  [prefix : {COMMAND}, authorized : BOOLEAN,
   word : {"", "list", "kill", "Kill", "log", "send", "steer", "info",
           "spawn", "help", "frobnicate"},
   target : {"", "all", "id"}]
  \cup [prefix : {COMMAND_KILL, COMMAND_STEER, COMMAND_TELL}, authorized : BOOLEAN,
        word : {""}, target : {"", "all", "id"}]

CommandSpawnArgs ==
  [agentId : {<<"m">>, <<"b">>}, model : {<<>>}, thinking : {""}, command : {TRUE}, task : {<<>>}, restTokens : {<<>>},
   runTimeoutSeconds : {NotFinite}]

InitDispatch ==
  /\ InitBridge
  /\ cfg \in CommandConfigs
  /\ subagentRuns = [r \in RunIds |-> NoRecord]
  /\ store = [k \in SessionKeys |-> NoEntry]
  /\ nextRun = 1
  /\ nextUuid = 1
  /\ call = [p \in Procs |-> IdleCall]
  /\ returned = NoReturn

LogNext == \E p \in Procs, outcome \in Outcomes : LogHistoryReturned(p, outcome)

SettleNext ==
  \/ \E p \in Procs, outcome \in Outcomes : SpawnDepthPatched(p, outcome)
  \/ \E p \in Procs, outcome \in {Ok} \cup ModelPatchFailures :
       SpawnModelPatched(p, outcome)
  \/ \E p \in Procs, outcome \in Outcomes : SpawnAgentReturned(p, outcome)
  \/ \E p \in Procs, outcome \in Outcomes : KillStoreUpdated(p, outcome)
  \/ \E p \in Procs, outcome \in Outcomes : SteerWaitSettled(p, outcome)
  \/ \E p \in Procs, outcome \in Outcomes : SteerAgentReturned(p, outcome)
  \/ \E p \in Procs, outcome \in Outcomes : SendAgentReturned(p, outcome)
  \/ \E p \in Procs, wait \in WaitOutcomes : SendWaitReturned(p, wait)
  \/ \E p \in Procs, outcome \in Outcomes : SendHistoryReturned(p, outcome, <<>>)

\* The runs the target token of the command may name, and the parameters its
\* tokens may carry.
TargetsFor(req, cmd) == IF cmd.target = "id" THEN Targets(req) ELSE {0}

ArgsFor(cmd) ==
  IF actionOf(cmd.prefix, cmd.word) = "spawn" /\ cmd.target = "id"
  THEN CommandSpawnArgs
  ELSE {[NoArgs EXCEPT !.command = TRUE]}

\* The dispatcher hands over one command at a time, all of the root session.
CommandNext ==
  \E req \in {Root}, cmd \in Commands :
     \E rid \in TargetsFor(req, cmd), args \in ArgsFor(cmd) :
        HandleCommand(1, req, cmd, rid, args)

NextDispatch == CommandNext \/ SettleNext \/ LogNext

SpecDispatch == InitDispatch /\ [][NextDispatch]_vars

\* Index targets: every registry of runs of the root session, with their
\* ages, listed and resolved at every clock reading.
Times == {15 * i : i \in 0..MaxTicks}

TimedRecords(r) ==
  {NoRecord}
  \cup {[Record(r, [agent |-> <<"m">>, id |-> 1], Root) EXCEPT
           !.createdAt = created, !.ended = (ended >= 0),
           !.endedAt = IF ended >= 0 THEN ended ELSE 0,
           !.outcome = IF ended >= 0 THEN "ok" ELSE ""] :
          created \in Times, ended \in {-1} \cup Times}

InitTargets ==
  /\ InitBridge
  /\ cfg \in CommandConfigs
  /\ subagentRuns \in {runs \in [RunIds -> UNION {TimedRecords(r) : r \in RunIds}] :
                         \A r \in RunIds :
                            /\ runs[r] \in TimedRecords(r)
                            /\ runs[r].ended => runs[r].endedAt >= runs[r].createdAt}
  /\ store = [k \in SessionKeys |-> NoEntry]
  /\ nextRun = MaxRuns + 1
  /\ nextUuid = MaxSessions + 1
  /\ call = [p \in Procs |-> IdleCall]
  /\ returned = NoReturn

\* The clock readings at which the registry can be looked at.
Readings ==
  {now \in Times : \A r \in RunIds : /\ subagentRuns[r].createdAt <= now
                                     /\ subagentRuns[r].endedAt <= now}

NextTargets ==
  \/ \E now \in Readings : ListAt(1, Root, now)
  \/ \E now \in Readings, idx \in 0..(MaxRuns + 1) : InfoAt(1, Root, idx, now)

SpecTargets == InitTargets /\ [][NextTargets]_vars

\* Registries and session stores as they are not meant to be: requester/child
\* relations and spawnedBy chains that loop or lead nowhere, under kills and
\* spawns of every session involved.
OddKeys == {Root, [agent |-> <<"o">>, id |-> 1], [agent |-> <<"b">>, id |-> 1]}

OddRegistries ==
  {runs \in [RunIds -> {NoRecord} \cup
                         {Record(r, child, requester) :
                            r \in RunIds, child \in OddKeys, requester \in OddKeys}] :
     /\ \A r \in RunIds : runs[r].runId \in {0, r}
     /\ runs[1].requesterSessionKey = Root}

OddStores ==
  {st \in [SessionKeys ->
             {NoEntry} \cup {[NoEntry EXCEPT !.exists = TRUE, !.sessionId = TRUE,
                                             !.spawnedBy = parent] :
                               parent \in OddKeys \cup {NoKey}}] :
     \A k \in SessionKeys \ OddKeys : st[k] = NoEntry}

InitMalformed ==
  /\ InitBridge
  /\ cfg \in CommandConfigs
  /\ \/ /\ subagentRuns \in OddRegistries
        /\ store \in {st \in OddStores :
                        \A k \in OddKeys : st[k].exists = (k # Root) /\ st[k].spawnedBy = NoKey}
        /\ nextRun = MaxRuns + 1
        /\ nextUuid = MaxSessions + 1
     \/ /\ subagentRuns = [r \in RunIds |-> NoRecord]
        /\ store \in OddStores
        /\ nextRun = MaxRuns
        /\ nextUuid = MaxSessions
  /\ call = [p \in Procs |-> IdleCall]
  /\ returned = NoReturn

NextMalformed ==
  \/ \E req \in OddKeys : KillBegin(1, req, TRUE, 0)
  \/ \E req \in OddKeys : \E rid \in Targets(req) : KillBegin(1, req, FALSE, rid)
  \/ \E outcome \in Outcomes : KillStoreUpdated(1, outcome)
  \/ \E req \in OddKeys, args \in PlainArgs : SpawnBegin(1, req, args)
  \/ \E outcome \in Outcomes : SpawnDepthPatched(1, outcome)
  \/ \E outcome \in {Ok} \cup ModelPatchFailures : SpawnModelPatched(1, outcome)
  \/ \E outcome \in Outcomes : SpawnAgentReturned(1, outcome)

SpecMalformed == InitMalformed /\ [][NextMalformed]_vars

\* The send command alone, on a session with one run in flight, under every
\* result of agent.wait and of chat.history.  Every gateway call carries a
\* timeout, so that each call in flight settles.
WaitResults ==
  WaitOutcomes
  \cup {WaitResult("error", <<"boom">>), WaitResult("", <<>>),
        WaitResult("ok", <<"boom">>), WaitResult("timeout", <<"boom">>)}

ReplyTexts == {<<>>, <<"done">>, <<"Subagent still running">>}

InitSend ==
  /\ InitBridge
  /\ cfg \in CommandConfigs
  /\ subagentRuns = [r \in RunIds |->
                       IF r = 1 THEN Record(1, [agent |-> <<"m">>, id |-> 1], Root)
                       ELSE NoRecord]
  /\ store = [k \in SessionKeys |->
                IF k = [agent |-> <<"m">>, id |-> 1]
                THEN [NoEntry EXCEPT !.exists = TRUE, !.sessionId = TRUE,
                                     !.spawnDepth = 1, !.spawnedBy = Root]
                ELSE NoEntry]
  /\ nextRun = 2
  /\ nextUuid = 2
  /\ call = [p \in Procs |-> IdleCall]
  /\ returned = NoReturn

SendSettles ==
  \/ \E p \in Procs, outcome \in Outcomes : SendAgentReturned(p, outcome)
  \/ \E p \in Procs, wait \in WaitResults : SendWaitReturned(p, wait)
  \/ \E p \in Procs, outcome \in Outcomes, replyText \in ReplyTexts :
       SendHistoryReturned(p, outcome, replyText)

NextSend ==
  \/ \E p \in Procs : \E rid \in Targets(Root) : SendBegin(p, Root, rid)
  \/ SendSettles

SpecSend == InitSend /\ [][NextSend]_vars /\ WF_vars(SendSettles)

\* /subagents spawn under every short sequence of tokens, of the root session.
SpawnTokens == {"o", FLAG_MODEL, FLAG_THINKING, "high"}

RECURSIVE TokenSeqs(_)
TokenSeqs(n) ==
  IF n = 0 THEN {<<>>}
  ELSE TokenSeqs(n - 1)
       \cup {Append(tokens, t) : tokens \in {x \in TokenSeqs(n - 1) : Len(x) = n - 1},
                                 t \in SpawnTokens}

\* Every sequence of up to MaxTokens tokens, and the agent id followed by two
\* flags with their values, with or without words before, between and after.
FlagPairs == {<<flag, value>> : flag \in {FLAG_MODEL, FLAG_THINKING}, value \in {"o", "high"}}

RestTokens ==
  TokenSeqs(MaxTokens)
  \cup {<<"o">> \o a \o f1 \o b \o f2 \o c :
          a \in {<<>>, <<"o">>}, b \in {<<>>, <<"o">>}, c \in {<<>>, <<"high">>},
          f1 \in FlagPairs, f2 \in FlagPairs}

InitSpawnCommand ==
  /\ InitBridge
  /\ cfg \in CommandConfigs
  /\ subagentRuns = [r \in RunIds |-> NoRecord]
  /\ store = [k \in SessionKeys |-> NoEntry]
  /\ nextRun = MaxRuns
  /\ nextUuid = MaxSessions
  /\ call = [p \in Procs |-> IdleCall]
  /\ returned = NoReturn

NextSpawnCommand ==
  \/ \E restTokens \in RestTokens : SpawnFromTokens(1, Root, restTokens)
  \/ \E outcome \in Outcomes : SpawnDepthPatched(1, outcome)
  \/ \E outcome \in {Ok} \cup ModelPatchFailures : SpawnModelPatched(1, outcome)
  \/ \E outcome \in Outcomes : SpawnThinkingPatched(1, outcome)
  \/ \E outcome \in Outcomes : SpawnAgentReturned(1, outcome)

SpecSpawnCommand == InitSpawnCommand /\ [][NextSpawnCommand]_vars

\* ------------------------------------------------------ node bridge server
\* send(): a line written to the socket; a write to a socket that is no
\* longer open reaches nobody.
send(cs, frame) ==
  IF cs.socket = "open" THEN [cs EXCEPT !.sent = Append(@, frame)] ELSE cs

sendError(cs, code) == send(cs, ErrorFrame(code))

\* socket.destroy(): the close event of the socket follows later.
destroy(cns, c) ==
  IF cns[c].socket = "open" THEN [cns EXCEPT ![c].socket = "destroyed"] ELSE cns

FreeHandlers(c) == {h \in Handlers : conn[c].handlers[h].kind = "none"}

\* The handler of a line starts in the first free slot of its socket.
Start(cs, c, handler) ==
  [cs EXCEPT !.handlers[CHOOSE h \in FreeHandlers(c) : \A g \in FreeHandlers(c) : h <= g] = handler]

Finish(cs, h) == [cs EXCEPT !.handlers[h] = NoHandler]

RECURSIVE Received(_)
Received(c) == IF c = 0 THEN 0 ELSE conn[c].received + Received(c - 1)

\* socket.on("data"): one more line is read from an open socket; the
\* sockets read MaxFrames lines in all.
Receiving(c) == conn[c].socket = "open" /\ Received(MaxConns) < MaxFrames

Read(cs) == [cs EXCEPT !.received = @ + 1]

\* net.createServer(onConnection): a socket connects.
Connect(c) ==
  /\ conn[c].socket = "none"
  /\ \A d \in Conns : d < c => conn[d].socket # "none"
  /\ conn' = [conn EXCEPT ![c].socket = "open"]
  /\ UNCHANGED <<connections, pairing, callbacks, invokes>>
  /\ UNCHANGED coreVars

\* The test of handleEvent and handleRequest on the closure state.
allowedAnyone(cs) == cs.nodeId # NoNode

allowed(cs) == cs.isAuthenticated /\ cs.nodeId # NoNode

\* isAuthenticated = true, the socket in the table under nodeId is
\* destroyed when it is another one, nodeInfo is built from nodeId.
authenticate(cns, c) ==
  LET existing == connections[cns[c].nodeId]
      marked == [cns EXCEPT ![c].isAuthenticated = TRUE, ![c].nodeInfo = cns[c].nodeId]
  IN IF existing.socket # 0 /\ existing.socket # c
     THEN destroy(marked, existing.socket) ELSE marked

\* connections.set(nodeId, { socket, nodeInfo, invokeWaiters })
register(c, cs) ==
  [connections EXCEPT ![cs.nodeId] = [socket |-> c, nodeInfo |-> cs.nodeInfo]]

\* handleHello up to its first await.
HelloBegin(c, raw, token) ==
  /\ Receiving(c)
  /\ LET nodeId == trim(raw)
         cs == [Read(conn[c]) EXCEPT !.nodeId = nodeId]
     IN IF nodeId = NoNode
        THEN conn' = [conn EXCEPT ![c] = sendError(cs, "INVALID_REQUEST")]
        ELSE /\ FreeHandlers(c) # {}
             /\ conn' = [conn EXCEPT ![c] = Start(cs, c,
                  [NoHandler EXCEPT !.kind = "hello", !.nodeId = nodeId, !.token = token,
                     !.pc = IF token = 0 THEN "getPairedNode" ELSE "verifyNodeToken"])]
  /\ UNCHANGED <<connections, pairing, callbacks, invokes>>
  /\ UNCHANGED coreVars

\* handleHello without a token, after getPairedNode.
HelloUnpaired(c, h) ==
  /\ conn[c].handlers[h].kind = "hello"
  /\ conn[c].handlers[h].pc = "getPairedNode"
  /\ LET paired == getPairedNode(pairing, conn[c].handlers[h].nodeId)
     IN conn' = [conn EXCEPT ![c] = sendError(Finish(conn[c], h),
                   IF paired.token # 0 THEN "UNAUTHORIZED" ELSE "NOT_PAIRED")]
  /\ UNCHANGED <<connections, pairing, callbacks, invokes>>
  /\ UNCHANGED coreVars

\* handleHello after verifyNodeToken, up to updatePairedNodeMetadata.
HelloVerified(c, h) ==
  /\ conn[c].handlers[h].kind = "hello"
  /\ conn[c].handlers[h].pc = "verifyNodeToken"
  /\ IF verifyNodeToken(pairing, conn[c].handlers[h].nodeId, conn[c].handlers[h].token)
     THEN /\ conn' = [authenticate(conn, c) EXCEPT
                        ![c].handlers[h].pc = "updatePairedNodeMetadata"]
          /\ callbacks' = callbacks \cup {Callback("verified", c, conn[c].handlers[h].nodeId, 0)}
     ELSE /\ conn' = [conn EXCEPT ![c] = sendError(Finish(conn[c], h), "UNAUTHORIZED")]
          /\ UNCHANGED callbacks
  /\ UNCHANGED <<connections, pairing, invokes>>
  /\ UNCHANGED coreVars

\* handleHello after updatePairedNodeMetadata.
HelloRegistered(c, h) ==
  /\ conn[c].handlers[h].kind = "hello"
  /\ conn[c].handlers[h].pc = "updatePairedNodeMetadata"
  /\ connections' = register(c, conn[c])
  /\ conn' = [conn EXCEPT ![c] = send(Finish(conn[c], h), Frame("hello-ok", "", 0, 0))]
  /\ callbacks' = callbacks \cup {Callback("onAuthenticated", c, conn[c].nodeInfo, 0)}
  /\ UNCHANGED <<pairing, invokes>>
  /\ UNCHANGED coreVars

\* handlePairRequest, once approved: pair-ok with the token, then hello-ok.
sendPairedHelloFirst(cs, token) ==
  send(send(cs, Frame("hello-ok", "", 0, 0)), Frame("pair-ok", "", token, 0))

sendPaired(cs, token) ==
  send(send(cs, Frame("pair-ok", "", token, 0)), Frame("hello-ok", "", 0, 0))

\* handlePairRequest up to its first await.
PairRequestBegin(c, raw) ==
  /\ Receiving(c)
  /\ LET nodeId == trim(raw)
         cs == [Read(conn[c]) EXCEPT !.nodeId = nodeId]
     IN IF nodeId = NoNode
        THEN conn' = [conn EXCEPT ![c] = sendError(cs, "INVALID_REQUEST")]
        ELSE /\ FreeHandlers(c) # {}
             /\ conn' = [conn EXCEPT ![c] = Start(cs, c,
                  [NoHandler EXCEPT !.kind = "pair-request", !.nodeId = nodeId,
                                    !.pc = "requestNodePairing"])]
  /\ UNCHANGED <<connections, pairing, callbacks, invokes>>
  /\ UNCHANGED coreVars

\* handlePairRequest after requestNodePairing: onPairRequested for a new
\* request, then waitForApproval starts.
PairRequested(c, h) ==
  /\ conn[c].handlers[h].kind = "pair-request"
  /\ conn[c].handlers[h].pc = "requestNodePairing"
  /\ LET result == requestNodePairing(pairing, conn[c].handlers[h].nodeId)
     IN /\ result.created => pairing.nextRequest <= MaxRequests
        /\ pairing' = result.store
        /\ conn' = [conn EXCEPT ![c].handlers[h].request = result.request,
                                ![c].handlers[h].pc = "listNodePairing"]
        /\ callbacks' = callbacks
             \cup {Callback("requested", c, result.request.nodeId, result.request.requestId)}
             \cup (IF result.created
                   THEN {Callback("onPairRequested", c, result.request.nodeId, result.request.requestId)} ELSE {})
  /\ UNCHANGED <<connections, invokes>>
  /\ UNCHANGED coreVars

\* waitForApproval: one turn of the loop in which the request is no longer
\* pending, or the loop ends because the socket was closed.
PairPolled(c, h) ==
  /\ conn[c].handlers[h].kind = "pair-request"
  /\ conn[c].handlers[h].pc = "listNodePairing"
  /\ IF conn[c].aborted
     THEN conn' = [conn EXCEPT ![c] = sendError(Finish(conn[c], h), "UNAUTHORIZED")]
     ELSE /\ conn[c].handlers[h].request \notin listNodePairing(pairing)
          /\ conn' = [conn EXCEPT ![c].handlers[h].pc = "getPairedNode"]
  /\ UNCHANGED <<connections, pairing, callbacks, invokes>>
  /\ UNCHANGED coreVars

\* waitForApproval: the deadline passes while the request is pending.
PairExpired(c, h) ==
  /\ conn[c].handlers[h].kind = "pair-request"
  /\ conn[c].handlers[h].pc = "listNodePairing"
  /\ ~conn[c].aborted
  /\ conn[c].handlers[h].request \in listNodePairing(pairing)
  /\ conn' = [conn EXCEPT ![c] = sendError(Finish(conn[c], h), "UNAUTHORIZED")]
  /\ UNCHANGED <<connections, pairing, callbacks, invokes>>
  /\ UNCHANGED coreVars

\* waitForApproval after getPairedNode, and the rest of handlePairRequest.
PairSettled(c, h) ==
  /\ conn[c].handlers[h].kind = "pair-request"
  /\ conn[c].handlers[h].pc = "getPairedNode"
  /\ LET request == conn[c].handlers[h].request
         paired == getPairedNode(pairing, request.nodeId)
         cns == authenticate([conn EXCEPT ![c] = Finish(conn[c], h)], c)
     IN IF paired.token = 0 \/ paired.approvedAtMs < request.ts
        THEN /\ conn' = [conn EXCEPT ![c] = sendError(Finish(conn[c], h), "UNAUTHORIZED")]
             /\ UNCHANGED <<connections, callbacks>>
        ELSE /\ connections' = register(c, cns[c])
             /\ conn' = [cns EXCEPT ![c] = sendPaired(cns[c], paired.token)]
             /\ callbacks' = callbacks \cup {Callback("onAuthenticated", c, cns[c].nodeInfo, request.requestId)}
  /\ UNCHANGED <<pairing, invokes>>
  /\ UNCHANGED coreVars

\* handleEvent: onEvent is called before the handler's only await.
HandleEvent(c) ==
  /\ Receiving(c)
  /\ IF allowed(conn[c])
     THEN /\ conn' = [conn EXCEPT ![c] = Read(conn[c])]
          /\ callbacks' = callbacks \cup {Callback("onEvent", c, conn[c].nodeId, 0)}
     ELSE /\ conn' = [conn EXCEPT ![c] = sendError(Read(conn[c]), "UNAUTHORIZED")]
          /\ UNCHANGED callbacks
  /\ UNCHANGED <<connections, pairing, invokes>>
  /\ UNCHANGED coreVars

\* handleRequest: onRequest is called before the handler's only await; the
\* res frame of its result is written when it settles, ok says how.
HandleRequest(c, id, ok) ==
  /\ Receiving(c)
  /\ IF ~allowed(conn[c])
     THEN /\ conn' = [conn EXCEPT ![c] = send(Read(conn[c]), Frame("res", "UNAUTHORIZED", 0, id))]
          /\ UNCHANGED callbacks
     ELSE IF id = 0
     THEN /\ conn' = [conn EXCEPT ![c] = send(Read(conn[c]), Frame("res", "INVALID_REQUEST", 0, id))]
          /\ UNCHANGED callbacks
     ELSE /\ conn' = [conn EXCEPT ![c] =
                 send(Read(conn[c]), Frame("res", IF ok THEN "" ELSE "UNAVAILABLE", 0, id))]
          /\ callbacks' = callbacks \cup {Callback("onRequest", c, conn[c].nodeId, id)}
  /\ UNCHANGED <<connections, pairing, invokes>>
  /\ UNCHANGED coreVars

\* case "ping"
HandlePing(c) ==
  /\ Receiving(c)
  /\ conn' = [conn EXCEPT ![c] =
       IF ~conn[c].isAuthenticated THEN sendError(Read(conn[c]), "UNAUTHORIZED")
       ELSE send(Read(conn[c]), Frame("pong", "", 0, 0))]
  /\ UNCHANGED <<connections, pairing, callbacks, invokes>>
  /\ UNCHANGED coreVars

\* A promise settles: the first resolve or reject decides its outcome.
settle(inv, outcome, res) ==
  [inv EXCEPT !.state = "settled", !.settles = @ + 1, !.timer = inv.timer,
              !.outcome = IF inv.settles = 0 THEN outcome ELSE @,
              !.res = IF inv.settles = 0 THEN res ELSE @]

clearTimeout(inv) == [inv EXCEPT !.timer = FALSE]

\* case "invoke-res"
HandleInvokeRes(c, id) ==
  /\ Receiving(c)
  /\ IF ~conn[c].isAuthenticated
     THEN /\ conn' = [conn EXCEPT ![c] = sendError(Read(conn[c]), "UNAUTHORIZED")]
          /\ UNCHANGED invokes
     ELSE IF id \in conn[c].invokeWaiters
     THEN /\ conn' = [conn EXCEPT ![c] = [Read(conn[c]) EXCEPT !.invokeWaiters = @ \ {id}]]
          /\ invokes' = [invokes EXCEPT ![id] = settle(clearTimeout(@), "resolved", id)]
     ELSE /\ conn' = [conn EXCEPT ![c] = Read(conn[c])]
          /\ UNCHANGED invokes
  /\ UNCHANGED <<connections, pairing, callbacks>>
  /\ UNCHANGED coreVars

\* case "invoke", case "res", default, and a line that is not JSON.
HandleOther(c) ==
  /\ Receiving(c)
  /\ conn' = [conn EXCEPT ![c] = sendError(Read(conn[c]), "INVALID_REQUEST")]
  /\ UNCHANGED <<connections, pairing, callbacks, invokes>>
  /\ UNCHANGED coreVars

\* stop(): the waiters of the socket are rejected and its entry of the
\* table, looked up under nodeId, is deleted when it is this socket.
stopKeepingWaiters(cs) == [cs EXCEPT !.aborted = TRUE]

stop(cs) == [cs EXCEPT !.aborted = TRUE, !.invokeWaiters = {}]

\* socket.on("close"): the peer closed the socket or it was destroyed.
SocketClosed(c) ==
  /\ conn[c].socket \in {"open", "destroyed"}
  /\ conn' = [conn EXCEPT ![c] = [stop(conn[c]) EXCEPT !.socket = "closed"]]
  /\ invokes' = [i \in InvokeIds |->
       IF i \in conn[c].invokeWaiters
       THEN settle(clearTimeout(invokes[i]), "closed", 0) ELSE invokes[i]]
  /\ connections' =
       IF conn[c].nodeId # NoNode /\ connections[conn[c].nodeId].socket = c
       THEN [connections EXCEPT ![conn[c].nodeId] = NoConnection] ELSE connections
  /\ callbacks' = callbacks \cup
       (IF conn[c].nodeInfo # NoNode /\ conn[c].isAuthenticated
        THEN {Callback("onDisconnected", c, conn[c].nodeInfo, 0)} ELSE {})
  /\ UNCHANGED pairing
  /\ UNCHANGED coreVars

FreeInvokes == {i \in InvokeIds : invokes[i].state = "none"}

\* server.invoke: the waiter is put in the table of the node's socket and
\* the invoke frame is written; a write that throws rejects at once.
Invoke(nodeId, throws) ==
  /\ nodeId # NoNode
  /\ connections[nodeId].socket # 0
  /\ FreeInvokes # {}
  /\ LET c == connections[nodeId].socket
         id == CHOOSE i \in FreeInvokes : \A j \in FreeInvokes : i <= j
         armed == [NoInvoke EXCEPT !.state = "pending", !.socket = c, !.timer = TRUE]
     IN /\ throws => conn[c].socket # "open"
        /\ IF throws
           THEN /\ invokes' = [invokes EXCEPT ![id] = settle(clearTimeout(armed), "write", 0)]
                /\ UNCHANGED conn
           ELSE /\ invokes' = [invokes EXCEPT ![id] = armed]
                /\ conn' = [conn EXCEPT ![c] =
                     send([conn[c] EXCEPT !.invokeWaiters = @ \cup {id}],
                          Frame("invoke", "", 0, id))]
  /\ UNCHANGED <<connections, pairing, callbacks>>
  /\ UNCHANGED coreVars

\* The timer of an invoke fires.
InvokeTimeout(id) ==
  /\ invokes[id].timer
  /\ invokes' = [invokes EXCEPT ![id] = settle(clearTimeout(@), "timeout", 0)]
  /\ conn' = [conn EXCEPT ![invokes[id].socket].invokeWaiters = @ \ {id}]
  /\ UNCHANGED <<connections, pairing, callbacks>>
  /\ UNCHANGED coreVars

\* The operator approves or rejects a pending request.
ApprovePairing(request) ==
  /\ request \in pairing.pending
  /\ pairing.nextToken <= MaxApprovals
  /\ pairing' = approveNodePairing(pairing, request)
  /\ UNCHANGED <<conn, connections, callbacks, invokes>>
  /\ UNCHANGED coreVars

RejectPairing(request) ==
  /\ request \in pairing.pending
  /\ pairing' = rejectNodePairing(pairing, request)
  /\ UNCHANGED <<conn, connections, callbacks, invokes>>
  /\ UNCHANGED coreVars

\* The bridge server alone: the subagent core stays idle.
RawNodeIds == {<<>>, <<"A", " ">>}

HelloTokens == 0..MaxApprovals

InitBridgeServer ==
  /\ InitCommands
  /\ cfg = CHOOSE c \in CommandConfigs : TRUE

HelloNext ==
  \/ \E c \in Conns, raw \in RawNodeIds, token \in HelloTokens : HelloBegin(c, raw, token)
  \/ \E c \in Conns, h \in Handlers : HelloUnpaired(c, h)
  \/ \E c \in Conns, h \in Handlers : HelloVerified(c, h)
  \/ \E c \in Conns, h \in Handlers : HelloRegistered(c, h)

PairNext ==
  \/ \E c \in Conns, raw \in RawNodeIds : PairRequestBegin(c, raw)
  \/ \E c \in Conns, h \in Handlers : PairRequested(c, h)
  \/ \E c \in Conns, h \in Handlers : PairPolled(c, h)
  \/ \E c \in Conns, h \in Handlers : PairExpired(c, h)
  \/ \E c \in Conns, h \in Handlers : PairSettled(c, h)
  \/ \E request \in pairing.pending : ApprovePairing(request)
  \/ \E request \in pairing.pending : RejectPairing(request)

FrameNext ==
  \/ \E c \in Conns : HandleEvent(c)
  \/ \E c \in Conns, id \in 0..1, ok \in BOOLEAN : HandleRequest(c, id, ok)
  \/ \E c \in Conns : HandlePing(c)
  \/ \E c \in Conns : HandleOther(c)
  \/ \E c \in Conns, id \in InvokeIds : HandleInvokeRes(c, id)

InvokeNext ==
  \/ \E nodeId \in NodeNames, throws \in BOOLEAN : Invoke(nodeId, throws)
  \/ \E id \in InvokeIds : InvokeTimeout(id)

SocketNext ==
  \/ \E c \in Conns : Connect(c)
  \/ \E c \in Conns : SocketClosed(c)

NextBridge == HelloNext \/ PairNext \/ FrameNext \/ SocketNext

SpecBridge == InitBridgeServer /\ [][NextBridge]_vars

\* server.invoke: socket 1 has paired as node A and is in the table.
PairedStore ==
  LET result == requestNodePairing(InitPairing, <<"A">>)
  IN approveNodePairing(result.store, result.request)

InitInvoke ==
  /\ session = IdleSession
  /\ cfg = CHOOSE c \in CommandConfigs : TRUE
  /\ subagentRuns = [r \in RunIds |-> NoRecord]
  /\ store = [k \in SessionKeys |-> NoEntry]
  /\ nextRun = 1
  /\ nextUuid = 1
  /\ call = [p \in Procs |-> IdleCall]
  /\ returned = NoReturn
  /\ conn = [c \in Conns |->
       IF c = 1
       THEN [NoConn EXCEPT !.socket = "open", !.isAuthenticated = TRUE, !.nodeId = <<"A">>,
                           !.nodeInfo = <<"A">>, !.received = 1,
                           !.sent = <<PairOk(1), HelloOk>>]
       ELSE NoConn]
  /\ connections = [n \in NodeNames |->
       IF n = <<"A">> THEN [socket |-> 1, nodeInfo |-> <<"A">>] ELSE NoConnection]
  /\ pairing = PairedStore
  /\ callbacks = {Callback("requested", 1, <<"A">>, 1), Callback("onPairRequested", 1, <<"A">>, 1),
                   Callback("onAuthenticated", 1, <<"A">>, 1)}
  /\ invokes = [i \in InvokeIds |-> NoInvoke]

NextInvoke ==
  \/ InvokeNext
  \/ \E c \in Conns, id \in InvokeIds : HandleInvokeRes(c, id)
  \/ SocketNext
  \/ \E c \in Conns : HelloBegin(c, <<"A">>, 1)
  \/ \E c \in Conns, h \in Handlers : HelloVerified(c, h)
  \/ \E c \in Conns, h \in Handlers : HelloRegistered(c, h)

\* The timer of setTimeout fires unless it was cleared.
SpecInvoke ==
  /\ InitInvoke /\ [][NextInvoke]_vars
  /\ \A id \in InvokeIds : WF_vars(InvokeTimeout(id))

\* /subagents log of the root session over its runs in flight, with every
\* list of tokens after the action word.
LogTokens ==
  {<<"1">>, <<"2">>, <<"0">>, <<"5", "0">>, <<"3", "0", "0">>, <<"r">>,
   <<"t", "o", "o", "l", "s">>}

LogTokenLists == UNION {[1..n -> LogTokens] : n \in 1..MaxTokens}

\* The run the target token resolves to: by its index when it is all
\* digits, else any run, or none, as its label or run id decides.
LogTargets(token) ==
  IF isDigits(token)
  THEN {resolveSubagentTarget(listSubagentRunsForRequester(subagentRuns, Root),
                              parseInt(token), 0)}
  ELSE Targets(Root)

InitLog ==
  /\ InitBridge
  /\ cfg \in CommandConfigs
  /\ \E k \in 1..MaxSessions :
        /\ subagentRuns = SituationRuns(k, <<"m">>)
        /\ store = SituationStore(k, <<"m">>)
        /\ nextRun = k + 1
        /\ nextUuid = k + 1
  /\ call = [p \in Procs |-> IdleCall]
  /\ returned = NoReturn

NextLog ==
  \/ \E restTokens \in LogTokenLists : \E rid \in LogTargets(restTokens[1]) :
        LogBegin(1, Root, rid, restTokens)
  \/ LogNext

SpecLog == InitLog /\ [][NextLog]_vars

\* /subagents log <target> of the root session over runs with labels.
RunLabels == {<<>>, <<"A", "b">>, <<"a", "b">>, <<"a", "b", "c">>, <<"x", " ">>}

TargetTokens ==
  {<<"a", "b">>, <<"A", "B">>, <<"a">>, <<"A">>, <<"a", "b", "c">>, <<"x">>,
   <<"b">>, <<"b", "3">>, <<"a", "1">>, <<"t">>, <<"z">>, <<" ", "T", " ">>,
   <<"l", "a", "s", "t">>, <<"2">>, <<"m", ":", "1">>, <<" ">>}

LabelledRuns(k, labels) ==
  [r \in RunIds |->
     IF r <= k THEN [Record(r, [agent |-> <<"m">>, id |-> r], Root)
                       EXCEPT !.label = labels[r]]
     ELSE NoRecord]

InitLabels ==
  /\ InitBridge
  /\ cfg \in CommandConfigs
  /\ \E k \in 1..MaxSessions : \E labels \in [1..k -> RunLabels] :
        /\ subagentRuns = LabelledRuns(k, labels)
        /\ store = SituationStore(k, <<"m">>)
        /\ nextRun = k + 1
        /\ nextUuid = k + 1
  /\ call = [p \in Procs |-> IdleCall]
  /\ returned = NoReturn

NextLabels ==
  \/ \E token \in TargetTokens : LogCommand(1, Root, <<token>>)
  \/ LogNext

SpecLabels == InitLabels /\ [][NextLabels]_vars

\* Spawns of the root session for itself and for agent o, with a model
\* named or left out at each of the places a model comes from.
ModelConfigs ==
  {[c EXCEPT !.subagentModel = [a \in Agents |-> IF a = <<"m">> THEN own
                                                 ELSE IF a = <<"o">> THEN other
                                                 ELSE ModelString(<<>>)],
             !.defaultsSubagentModel = dflt,
             !.defaultsModelPrimary = primary] :
     c \in CommandConfigs,
     own \in {ModelString(<<>>), ModelObject(<<"a", "2">>)},
     other \in {ModelString(<<" ", "a">>), ModelObject(<<" ">>)},
     dflt \in {ModelString(<<>>), ModelString(<<"s">>), ModelObject(<<" ", "s", " ">>)},
     primary \in {<<>>, <<" ">>, <<"p", "r">>}}

ModelArgs ==
  [agentId : {<<>>, <<"O">>}, model : {<<>>, <<" ">>, <<"x", " ">>}, thinking : {""},
   command : {FALSE}, task : {<<>>}, restTokens : {<<>>},
   runTimeoutSeconds : {NotFinite}]

InitModels ==
  /\ InitBridge
  /\ cfg \in ModelConfigs
  /\ subagentRuns = [r \in RunIds |-> NoRecord]
  /\ store = [k \in SessionKeys |-> NoEntry]
  /\ nextRun = 1
  /\ nextUuid = 1
  /\ call = [p \in Procs |-> IdleCall]
  /\ returned = NoReturn

NextModels ==
  \/ \E args \in ModelArgs : SpawnBegin(1, Root, args)
  \/ \E outcome \in Outcomes : SpawnDepthPatched(1, outcome)
  \/ \E outcome \in {Ok} \cup ModelPatchFailures : SpawnModelPatched(1, outcome)
  \/ \E outcome \in Outcomes : SpawnAgentReturned(1, outcome)

SpecModels == InitModels /\ [][NextModels]_vars

\* One MacNodeBridgeSession, its owner, its connections and its bridge.
SessionSteps ==
  \/ \E k \in ConnectIds, ready \in BOOLEAN : ConnectionReady(k, ready)
  \/ \E k \in ConnectIds, ok \in BOOLEAN : HelloSent(k, ok)
  \/ \E k \in ConnectIds, chunk \in Chunks : ChunkReceived(k, chunk)
  \/ \E k \in ConnectIds : HelloAnswered(k)
  \/ \E k \in ConnectIds : OnConnected(k)
  \/ \E k \in ConnectIds : ChunkHandled(k)
  \/ \E k \in ConnectIds, ok \in BOOLEAN : PongSent(k, ok)
  \/ IntervalPassed
  \/ \E k \in ConnectIds : PingWake(k)
  \/ \E k \in ConnectIds, ok \in BOOLEAN : PingSent(k, ok)
  \/ \E id \in RpcIds : Request(id)
  \/ \E id \in RpcIds : beginRPC(id)
  \/ \E id \in RpcIds, ok \in BOOLEAN : RequestSent(id, ok)
  \/ \E id \in RpcIds : timeoutRPC(id)
  \/ \E k \in ConnectIds : ConnectionFails(k)
  \/ \E k \in ConnectIds : handleConnectionState(k)
  \/ DisconnectCalled

NextSession == (\E k \in ConnectIds : connect(k)) \/ SessionSteps

SpecSession == InitBridgeServer /\ [][NextSession]_vars

\* The session over its first connection.  The actor runs every task that
\* is ready, time passes, and every send and every timer comes to its end;
\* the bridge, the network and the owner act when they like.
NextHeartbeat == connect(1) \/ SessionSteps

SessionFairness ==
  /\ WF_vars(IntervalPassed)
  /\ \A k \in ConnectIds :
       /\ WF_vars(HelloAnswered(k)) /\ WF_vars(OnConnected(k))
       /\ WF_vars(ChunkHandled(k)) /\ WF_vars(PingWake(k))
       /\ WF_vars(handleConnectionState(k))
       /\ WF_vars(\E ok \in BOOLEAN : HelloSent(k, ok))
       /\ WF_vars(\E ok \in BOOLEAN : PongSent(k, ok))
       /\ WF_vars(\E ok \in BOOLEAN : PingSent(k, ok))
  /\ \A id \in RpcIds :
       /\ WF_vars(beginRPC(id)) /\ WF_vars(timeoutRPC(id))
       /\ WF_vars(\E ok \in BOOLEAN : RequestSent(id, ok))

SpecHeartbeat == InitBridgeServer /\ [][NextHeartbeat]_vars /\ SessionFairness

\* Spawns of the root session with a run timeout, and steers of their runs.
RawTimeouts == {NotFinite, 0 - 15, 25, 30}

TimeoutArgs ==
  [agentId : {<<>>}, model : {<<>>}, thinking : {""}, command : {FALSE},
   task : {<<>>}, restTokens : {<<>>}, runTimeoutSeconds : RawTimeouts]

NextTimeout ==
  \/ \E args \in TimeoutArgs : SpawnBegin(1, Root, args)
  \/ \E outcome \in Outcomes : SpawnDepthPatched(1, outcome)
  \/ \E outcome \in {Ok} \cup ModelPatchFailures : SpawnModelPatched(1, outcome)
  \/ \E outcome \in Outcomes : SpawnAgentReturned(1, outcome)
  \/ \E rid \in Targets(Root) : SteerBegin(1, Root, rid)
  \/ \E outcome \in Outcomes : SteerWaitSettled(1, outcome)
  \/ \E outcome \in Outcomes : SteerAgentReturned(1, outcome)

SpecTimeout == InitCommands /\ [][NextTimeout]_vars

\* The server starts over a pairing store in which node A is paired; the
\* sockets name A and B in their hello and pair-request frames.
IdentityNodeIds == {<<"A">>, <<"B">>}

InitIdentity ==
  /\ session = IdleSession
  /\ cfg = CHOOSE c \in CommandConfigs : TRUE
  /\ subagentRuns = [r \in RunIds |-> NoRecord]
  /\ store = [k \in SessionKeys |-> NoEntry]
  /\ nextRun = 1
  /\ nextUuid = 1
  /\ call = [p \in Procs |-> IdleCall]
  /\ returned = NoReturn
  /\ conn = [c \in Conns |-> NoConn]
  /\ connections = [n \in NodeNames |-> NoConnection]
  /\ pairing = PairedStore
  /\ callbacks = {}
  /\ invokes = [i \in InvokeIds |-> NoInvoke]

NextIdentity ==
  \/ \E c \in Conns, raw \in IdentityNodeIds, token \in 0..1 : HelloBegin(c, raw, token)
  \/ \E c \in Conns, h \in Handlers : HelloUnpaired(c, h)
  \/ \E c \in Conns, h \in Handlers : HelloVerified(c, h)
  \/ \E c \in Conns, h \in Handlers : HelloRegistered(c, h)
  \/ \E c \in Conns : PairRequestBegin(c, <<"B">>)
  \/ \E c \in Conns, h \in Handlers : PairRequested(c, h)
  \/ \E c \in Conns, h \in Handlers : PairPolled(c, h)
  \/ \E c \in Conns : HandleEvent(c)
  \/ \E c \in Conns, ok \in BOOLEAN : HandleRequest(c, 1, ok)
  \/ SocketNext

SpecIdentity == InitIdentity /\ [][NextIdentity]_vars

\* ------------------------------------------------------------------ properties
\* A spawn of p passed its admission checks in this step.
Admitted(p) == call[p].pc = "idle" /\ call'[p].kind = "spawn" /\ call'[p].pc = "patchDepth"

\* A spawn returned in the last step with this status and reason.
SpawnReturned(status) == returned.kind = "spawn" /\ returned.result.status = status

ActiveOf(key) == countActiveRunsForSession(subagentRuns, key)

DepthOf(key) == getSubagentDepthFromSessionStore(store, key)

\* C1: with maxChildrenPerAgent = M, a spawn is rejected for fan-out exactly
\* when its requester has M runs in flight: no spawn is admitted while M runs
\* of the requester are active, a spawn rejected for fan-out found M active
\* runs, and a spawn that got past the fan-out check found fewer than M; a
\* run that was marked terminated no longer counts.
C1_FanOutAdmission ==
  /\ [](SpawnReturned("forbidden") /\ returned.result.error = ErrChildren
          => ActiveOf(returned.req) >= maxChildrenOf(cfg))
  /\ [](returned.kind = "spawn" /\ returned.trace = <<>>
        /\ returned.result.error \in {ErrAllow, ErrThinking}
          => ActiveOf(returned.req) < maxChildrenOf(cfg))
  /\ [][\A p \in Procs :
          Admitted(p) => ActiveOf(call'[p].req) < maxChildrenOf(cfg)]_vars

\* C1 witness: after one of the M runs was killed, the next spawn of the
\* requester is accepted and the requester has M active runs again.
C1_Witness ==
  /\ SpawnReturned("accepted")
  /\ ActiveOf(returned.req) = maxChildrenOf(cfg)
  /\ \E rec \in listSubagentRunsForRequester(subagentRuns, returned.req) :
        rec.ended /\ rec.outcome = "killed"
  /\ \A p \in Procs : call[p].pc = "idle"

\* C2: with maxSpawnDepth = N, a spawn from a session at depth N or more is
\* forbidden, no spawn is admitted from such a session, and no child session
\* has a spawn depth above N.
C2_DepthAdmission ==
  /\ [](returned.kind = "spawn" /\ DepthOf(returned.req) >= maxSpawnDepthOf(cfg)
          => returned.result.status = "forbidden" /\ returned.result.error = ErrDepth)
  /\ [](\A r \in RunIds :
          Has(subagentRuns, r) =>
            /\ DepthOf(subagentRuns[r].childSessionKey) <= maxSpawnDepthOf(cfg)
            /\ store[subagentRuns[r].childSessionKey].spawnDepth <= maxSpawnDepthOf(cfg))
  /\ [][\A p \in Procs :
          Admitted(p) => /\ DepthOf(call'[p].req) < maxSpawnDepthOf(cfg)
                         /\ call'[p].childDepth <= maxSpawnDepthOf(cfg)]_vars

\* C2 witness: after a chain of N = 2 nested accepted spawns the deepest child
\* is refused.
C2_Witness ==
  /\ SpawnReturned("forbidden")
  /\ returned.result.error = ErrDepth
  /\ maxSpawnDepthOf(cfg) = MaxDepthCfg
  /\ DepthOf(returned.req) = maxSpawnDepthOf(cfg)

\* C3: the number of runs in flight of one requester never exceeds
\* maxChildrenPerAgent.
C3_FanOutBound == \A key \in SessionKeys : ActiveOf(key) <= maxChildrenOf(cfg)

\* The agent a spawn targets: the requested id, normalized, or the
\* requester's own agent.
TargetOf(req, args) ==
  IF args.agentId = <<>> THEN req.agent ELSE normalizeAgentId(args.agentId)

\* The list names the target: some entry is "*" or, trimmed and compared
\* case-insensitively, the target agent id.
Listed(allowAgents, targetAgentId) ==
  \E i \in 1..Len(allowAgents) :
     \/ trim(allowAgents[i]) = <<"*">>
     \/ toLowerCase(trim(allowAgents[i])) = toLowerCase(targetAgentId)

AllowlistPasses(req, args) ==
  \/ TargetOf(req, args) = req.agent
  \/ Listed(cfg.allowAgents[req.agent], TargetOf(req, args))

\* C4: a spawn is rejected by the allowlist check exactly when its target
\* differs from the requester's agent and the requester's allowAgents holds
\* neither "*" nor the target id, compared trimmed and case-insensitively; a
\* spawn to the requester's own agent is never rejected by the allowlist.
C4_AllowlistDecision ==
  /\ returned.kind = "spawn" /\ returned.result.error = ErrAllow
       => /\ returned.result.status = "forbidden"
          /\ ~AllowlistPasses(returned.req, returned.args)
  /\ returned.kind = "spawn" /\ returned.result.error = ErrThinking
       => AllowlistPasses(returned.req, returned.args)
  /\ \A p \in Procs :
       call[p].kind = "spawn" => AllowlistPasses(call[p].req, call[p].args)

\* C4 witness: a cross-agent spawn is admitted on the strength of an entry
\* that matches the target only after trimming and case folding, with no "*"
\* in the list.
C4_Witness ==
  /\ call[1].pc = "patchDepth"
  /\ TargetOf(call[1].req, call[1].args) # call[1].req.agent
  /\ call[1].args.agentId # TargetOf(call[1].req, call[1].args)
  /\ LET allowAgents == cfg.allowAgents[call[1].req.agent]
     IN \A i \in 1..Len(allowAgents) :
          /\ trim(allowAgents[i]) # <<"*">>
          /\ allowAgents[i] # TargetOf(call[1].req, call[1].args)

\* C5: a forbidden spawn has called no gateway method, returns a non-empty
\* error, and leaves the registry and the session store as they were.
C5_ForbiddenFrame ==
  /\ [](SpawnReturned("forbidden")
          => returned.trace = <<>> /\ returned.result.error # <<>>)
  /\ [][SpawnReturned("forbidden")'
          => subagentRuns' = subagentRuns /\ store' = store]_vars

\* C5 witness: a cross-agent spawn is forbidden while the registry holds a
\* run and another invocation is in flight.
C5_Witness ==
  /\ SpawnReturned("forbidden")
  /\ returned.result.error = ErrAllow
  /\ \E r \in RunIds : Has(subagentRuns, r)
  /\ \E p \in Procs : call[p].pc # "idle"

\* The thinking level a spawn asks for: the explicit override, else the
\* target agent's default, else the global default.
ThinkingAsked(c, req, args) ==
  IF args.thinking # "" THEN args.thinking
  ELSE IF c.subagentThinking[TargetOf(req, args)] # ""
  THEN c.subagentThinking[TargetOf(req, args)]
  ELSE c.defaultsSubagentThinking

InvalidThinking(c, req, args) ==
  ThinkingAsked(c, req, args) # "" /\ ThinkingAsked(c, req, args) \notin ThinkLevels

ModelRefused(err) ==
  /\ err.kind \in {"Error", "string"}
  /\ \/ includes(err.message, <<"invalid", "model">>)
     \/ includes(err.message, <<"model", "not", "allowed">>)

\* A rejection that ends the spawn: any but a refused model.
Fatal(rejection) ==
  ~(rejection.method = "sessions.patch:model" /\ ModelRefused(rejection.err))

Inserted(r) == ~Has(subagentRuns, r) /\ Has(subagentRuns', r)

\* C7: a spawn one of whose gateway calls rejected (a refused model apart)
\* returns status error with the rejection's message and the child session
\* key, with the run id exactly when the agent launch rejected; the rejected
\* call is the last it made; no invocation continues past such a rejection;
\* and a run enters the registry in exactly the steps in which a spawn
\* returns accepted, under the run id and child key of that result.
C7_RpcFailure ==
  /\ [](returned.kind = "spawn" =>
          \A i \in 1..Len(returned.rejections) :
             Fatal(returned.rejections[i]) =>
               /\ returned.result.status = "error"
               /\ returned.rejections[i].err.kind \in {"Error", "string"}
                    => returned.result.error = returned.rejections[i].err.message
               /\ returned.result.error # <<>>
               /\ returned.result.childSessionKey = returned.child
               /\ returned.child \in SessionKeys
               /\ returned.result.runId # 0 <=> returned.rejections[i].method = "agent"
               /\ i = Len(returned.rejections)
               /\ returned.trace[Len(returned.trace)] = returned.rejections[i].method)
  /\ [](\A p \in Procs : \A i \in 1..Len(call[p].rejections) :
          call[p].kind = "spawn" => ~Fatal(call[p].rejections[i]))
  /\ [][/\ SpawnReturned("accepted")' <=> \E r \in RunIds : Inserted(r)
        /\ \A r \in RunIds :
             Inserted(r) =>
               /\ returned'.result.runId = r
               /\ subagentRuns'[r].childSessionKey = returned'.result.childSessionKey
               /\ ~subagentRuns'[r].ended]_vars

\* C7 witness: the agent launch rejects after both patches went through; the
\* error carries the run id, and the registry holds no such run.
C7_Witness ==
  /\ SpawnReturned("error")
  /\ returned.result.error = <<"gateway", "timeout">>
  /\ returned.result.runId # 0
  /\ ~Has(subagentRuns, returned.result.runId)
  /\ returned.trace = <<"sessions.patch:spawnDepth", "sessions.patch:model",
                        "sessions.patch:thinkingLevel", "agent">>

\* C8: when the model patch rejects with a message that contains "invalid
\* model" or "model not allowed", the spawn goes on: unless a later call
\* rejects it patches the thinking level if one was resolved, launches the
\* agent, registers the run and returns accepted with modelApplied false and
\* the message as warning.  Any other rejection of the model patch ends the
\* spawn with status error.
C8_ModelFallback ==
  /\ returned.kind = "spawn" =>
       \A i \in 1..Len(returned.rejections) :
          returned.rejections[i].method = "sessions.patch:model" =>
            IF ModelRefused(returned.rejections[i].err)
            THEN \/ /\ Len(returned.rejections) > i
                    /\ returned.result.status = "error"
                 \/ /\ returned.result.status = "accepted"
                    /\ returned.result.modelApplied = "false"
                    /\ returned.result.warning = returned.rejections[i].err.message
                    /\ Has(subagentRuns, returned.result.runId)
                    /\ returned.trace[Len(returned.trace)] = "agent"
                    /\ ThinkingAsked(cfg, returned.req, returned.args) # ""
                         => returned.trace[Len(returned.trace) - 1]
                              = "sessions.patch:thinkingLevel"
            ELSE /\ returned.result.status = "error"
                 /\ i = Len(returned.rejections)
  /\ \A p \in Procs :
       call[p].kind = "spawn" /\ call[p].rejections # <<>>
         => /\ ModelRefused(call[p].rejections[1].err)
            /\ call[p].pc \in {"patchThinking", "agent"}
            /\ call[p].pc = "patchThinking"
                 <=> /\ ThinkingAsked(cfg, call[p].req, call[p].args) # ""
                     /\ call[p].trace[Len(call[p].trace)] # "agent"

\* C8 witness: the gateway answers "model not allowed"; the spawn patches the
\* thinking level, launches and is accepted with the warning.
C8_Witness ==
  /\ SpawnReturned("accepted")
  /\ returned.result.modelApplied = "false"
  /\ returned.result.warning = <<"model", "not", "allowed">>
  /\ returned.trace = <<"sessions.patch:spawnDepth", "sessions.patch:model",
                        "sessions.patch:thinkingLevel", "agent">>

\* The records of the registry that are in flight for a child session.
LiveRecordsOf(child) ==
  {r \in RunIds : /\ Has(subagentRuns, r)
                  /\ subagentRuns[r].childSessionKey = child
                  /\ ~subagentRuns[r].ended}

\* C9: when a steer has returned "steered", the requester's runs hold exactly
\* one record for the steered child session, and it carries the new run id.
C9_SteerReplacesRecord ==
  returned.kind = "steer" /\ returned.result.text = <<"steered">>
    => {rec.runId : rec \in {x \in listSubagentRunsForRequester(subagentRuns,
                                                                 returned.req) :
                               x.childSessionKey = returned.child}}
         = {returned.result.runId}

\* C10: at most one record is in flight per child session key.
C10_OneLiveRecordPerChild ==
  \A child \in SessionKeys : Cardinality(LiveRecordsOf(child)) <= 1

\* A steer returned in the last step after its relaunch was rejected.
SteerRelaunchRejected ==
  /\ returned.kind = "steer"
  /\ \E i \in 1..Len(returned.rejections) : returned.rejections[i].method = "agent"

\* C11 as stated: when a steer of R returns after its relaunch was rejected, R
\* is in the registry under its own run id with the restart flag cleared.
C11_RollbackKeepsRecord ==
  SteerRelaunchRejected
    => /\ Has(subagentRuns, returned.target)
       /\ ~subagentRuns[returned.target].steerRestart

\* C11 amended: when a steer of R returns after its relaunch was rejected, the
\* reply reports the failure, the steer has inserted and removed no record,
\* and R, if no other steer has replaced it meanwhile, is registered under
\* its own run id, unchanged but for the restart flag, which is cleared.
C11_RollbackAmended ==
  /\ [](SteerRelaunchRejected
          => /\ returned.result.status = "reply"
             /\ Head(returned.result.text) = "send failed:"
             /\ Has(subagentRuns, returned.target)
                  => ~subagentRuns[returned.target].steerRestart)
  /\ [][SteerRelaunchRejected' =>
          /\ store' = store
          /\ \A r \in RunIds :
               IF r = returned'.target /\ Has(subagentRuns, r)
               THEN subagentRuns'[r] = [subagentRuns[r] EXCEPT !.steerRestart = FALSE]
               ELSE subagentRuns'[r] = subagentRuns[r]]_vars

\* C11 witness: the relaunch was rejected and R is still registered, in
\* flight, with the flag cleared.
C11_Witness ==
  /\ SteerRelaunchRejected
  /\ Has(subagentRuns, returned.target)
  /\ ~subagentRuns[returned.target].ended
  /\ ~subagentRuns[returned.target].steerRestart
  /\ "markSubagentRunForSteerRestart" \in {returned.trace[i] : i \in 1..Len(returned.trace)}

\* The step is the handling of cmd, sent to req, whose target token names rid.
Handles(req, cmd, rid) ==
  \E args \in ArgsFor(cmd) : HandleCommand(1, req, cmd, rid, args)

\* The requesters whose command the step may have handled: the invocation
\* that returned or was suspended in the step carries its requester.
HandledFor == Requesters \cap {returned'.req, call'[1].req}

\* The invocation changed nothing and called nothing.
NoEffect ==
  /\ subagentRuns' = subagentRuns
  /\ store' = store
  /\ call' = call
  /\ nextRun' = nextRun
  /\ nextUuid' = nextUuid
  /\ returned'.trace = <<>>
  /\ returned'.rejections = <<>>

\* The three spellings of a steer that names a target.
SteerCommands ==
  {cmd \in Commands : /\ cmd.authorized /\ cmd.target = "id"
                      /\ actionOf(cmd.prefix, cmd.word) = "steer"}

UnauthorizedCommands == {cmd \in Commands : ~cmd.authorized}

\* C12: a steer -- /subagents steer, /steer or /tell -- whose target has ended
\* is answered "already finished" and has no effect: no restart flag, no
\* abort, no queue clearing, no agent.wait, no agent call, no registry change.
C12_SteerOfEndedRun ==
  [][\/ /\ returned'.result = Reply(<<"is already finished.">>)
        /\ returned'.kind = "steer"
        /\ NoEffect
     \/ \A req \in HandledFor, cmd \in SteerCommands :
          \A rid \in Targets(req) \ {0} :
             subagentRuns[rid].ended => ~Handles(req, cmd, rid)]_vars

\* C12 witness: a steer of a killed run was answered "already finished".
C12_Witness ==
  /\ returned.kind = "steer"
  /\ returned.result.text = <<"is already finished.">>
  /\ Has(subagentRuns, returned.target)
  /\ subagentRuns[returned.target].outcome = "killed"

\* C13: whatever its prefix, action and target, and whatever the registry
\* holds, a command of an unauthorized sender returns {shouldContinue: false}
\* without a reply and has no effect.
C13_UnauthorizedSilent ==
  [][\/ returned'.result = Silent /\ NoEffect
     \/ \A req \in HandledFor, cmd \in UnauthorizedCommands :
          \A rid \in TargetsFor(req, cmd) : ~Handles(req, cmd, rid)]_vars

\* C13 witness: a command was ignored while the requester had a run in
\* flight.
C13_Witness ==
  /\ returned.kind = "ignored"
  /\ returned.result = Silent
  /\ ActiveOf(returned.req) > 0

\* The runs of the root session.
RootRuns == listSubagentRunsForRequester(subagentRuns, Root)

\* The run on the line numbered idx of a list reply, 0 if there is no such line.
LineOf(lines, idx) ==
  IF \E i \in 1..Len(lines) : lines[i].index = idx
  THEN lines[CHOOSE i \in 1..Len(lines) : lines[i].index = idx].runId
  ELSE 0

\* C14 as stated, the clock left out: the index idx of a command resolves to
\* the run on line idx of a list reply made of the same runs, whenever the
\* list was made and whenever the index is resolved.
C14_IndexMatchesAnyList ==
  \A listedAt \in Readings, now \in Readings :
     listedAt <= now =>
       \A idx \in 1..(MaxRuns + 1) :
          resolveSubagentTarget(RootRuns, idx, now)
            = LineOf(listLines(RootRuns, listedAt), idx)

\* C14: at one clock reading, the index idx >= 1 resolves to the run on line
\* idx of the list reply made of the same runs; the lines are the active runs
\* and then the runs that ended within the last 30 minutes, each group newest
\* first, numbered 1, 2, ... without a gap; the index 0 and an index beyond
\* the last line are errors.
C14_IndexMatchesList ==
  \A now \in Readings :
     LET lines == listLines(RootRuns, now)
         sorted == sortSubagentRuns(RootRuns)
         shown == SelectSeq(sorted, LAMBDA entry : ~entry.ended)
                  \o SelectSeq(sorted, LAMBDA entry :
                       entry.ended /\ now - entry.endedAt <= RECENT_WINDOW_MINUTES)
     IN /\ Len(lines) = Len(shown)
        /\ \A i \in 1..Len(lines) :
              lines[i].index = i /\ lines[i].runId = shown[i].runId
        /\ \A i \in 1..Len(sorted) : \A j \in 1..Len(sorted) :
              i < j => sorted[i].createdAt >= sorted[j].createdAt
        /\ \A idx \in 1..(MaxRuns + 1) :
              resolveSubagentTarget(RootRuns, idx, now) = LineOf(lines, idx)
        /\ resolveSubagentTarget(RootRuns, 0, now) = 0
        /\ \A idx \in (Len(lines) + 1)..(MaxRuns + 1) :
              resolveSubagentTarget(RootRuns, idx, now) = 0
        /\ returned.kind = "info" /\ returned.target # 0
             => \E at \in Readings, idx \in 1..MaxRuns :
                   LineOf(listLines(RootRuns, at), idx) = returned.target

\* C14 witness: with an active run and a run that ended long ago and sorts
\* before a run that ended a moment ago, an index was resolved to the latter.
C14_Witness ==
  /\ returned.kind = "info"
  /\ returned.target # 0
  /\ subagentRuns[returned.target].ended
  /\ \E r \in RunIds : Has(subagentRuns, r) /\ ~subagentRuns[r].ended
  /\ \E r \in RunIds, now \in Readings :
        /\ Has(subagentRuns, r) /\ subagentRuns[r].ended
        /\ now - subagentRuns[r].endedAt > RECENT_WINDOW_MINUTES
        /\ subagentRuns[r].createdAt >= subagentRuns[returned.target].createdAt
        /\ r < returned.target

\* A kill whose updateSessionStore is about to settle, of a run that another
\* kill has marked terminated in the meantime.
SecondMark(p) ==
  /\ call[p].kind = "kill" /\ call[p].pc = "storeUpdate"
  /\ Has(subagentRuns, call[p].target)
  /\ subagentRuns[call[p].target].ended

C16_FailureIsReply ==
  returned.rejections # <<>> =>
    returned.result.status = "reply" /\ returned.result.text # <<>>

\* A kill of one run has returned to the dispatcher without a reply.
KillReturned ==
  /\ returned.kind = "kill" /\ returned.target # 0
  /\ returned.result = Silent

\* C17: once a kill of an active run has returned, the record of the run is
\* ended with outcome killed and no run spawned by the killed child is in
\* flight, whether or not the child has a session-store entry with a session
\* id to abort.
C17_KillMarksAndCascades ==
  KillReturned =>
    /\ Has(subagentRuns, returned.target)
    /\ subagentRuns[returned.target].ended
    /\ subagentRuns[returned.target].outcome = "killed"
    /\ countActiveRunsForSession(subagentRuns, returned.child) = 0

KillCommands ==
  {cmd \in Commands : /\ cmd.authorized /\ cmd.target = "id"
                      /\ actionOf(cmd.prefix, cmd.word) = "kill"}

\* C18: a kill -- /subagents kill or /kill -- whose target has ended is
\* answered "already finished" and changes nothing: no abort, no queue
\* clearing, no session-store write, no registry change, no cascade.
C18_KillOfEndedRun ==
  [][\/ /\ returned'.result = Reply(<<"is already finished.">>)
        /\ returned'.kind = "kill"
        /\ NoEffect
     \/ \A req \in HandledFor, cmd \in KillCommands :
          \A rid \in Targets(req) \ {0} :
             subagentRuns[rid].ended => ~Handles(req, cmd, rid)]_vars

\* C18 witness: a kill of a killed run, whose child holds a session id, was
\* answered "already finished".
C18_Witness ==
  /\ returned.kind = "kill"
  /\ returned.result.text = <<"is already finished.">>
  /\ Has(subagentRuns, returned.target)
  /\ subagentRuns[returned.target].outcome = "killed"
  /\ store[subagentRuns[returned.target].childSessionKey].sessionId

\* The sessions below key: key and, n times over, the children of the runs of
\* the sessions found so far.
RECURSIVE Below(_, _, _)
Below(runs, keys, n) ==
  IF n = 0 THEN keys
  ELSE Below(runs,
             keys \cup {runs[r].childSessionKey :
                          r \in {x \in RunIds : Has(runs, x)
                                   /\ runs[x].requesterSessionKey \in keys}},
             n - 1)

\* The session a returned kill cascaded from: the requester of kill all, the
\* child of the killed run otherwise.
CascadeRoot == IF returned.target = 0 THEN returned.req ELSE returned.child

Cyclic(runs) ==
  \E r1 \in RunIds, r2 \in RunIds :
     /\ Has(runs, r1) /\ Has(runs, r2)
     /\ runs[r1].childSessionKey # runs[r1].requesterSessionKey
     /\ runs[r1].requesterSessionKey
          \in Below(runs, {runs[r2].childSessionKey}, Cardinality(SessionKeys))
     /\ runs[r2].requesterSessionKey
          \in Below(runs, {runs[r1].childSessionKey}, Cardinality(SessionKeys))
     /\ r1 # r2

RECURSIVE Ancestor(_, _, _)
Ancestor(st, key, n) ==
  IF n = 0 THEN key
  ELSE LET below == Ancestor(st, key, n - 1)
       IN IF below = NoKey \/ ~st[below].exists THEN NoKey ELSE st[below].spawnedBy

\* The chain of key ends after n hops: at a session without an entry or
\* without a spawner.
EndsAt(st, key, n) ==
  LET top == Ancestor(st, key, n)
  IN top # NoKey /\ (~st[top].exists \/ st[top].spawnedBy = NoKey)

Resolvable(st, key) == \E n \in 0..Cardinality(SessionKeys) : EndsAt(st, key, n)

C21_SendWaitReplies ==
  /\ [][\A p \in Procs, wait \in WaitResults \ {WaitResult("throw", <<>>)} :
          SendWaitReturned(p, wait) =>
            CASE wait.status = "timeout" ->
                   /\ returned'.result.status = "reply"
                   /\ returned'.result.text = <<"Subagent still running">>
                   /\ returned'.trace[Len(returned'.trace)] = "agent.wait"
              [] wait.status = "error" ->
                   /\ returned'.result.status = "reply"
                   /\ Head(returned'.result.text) = "Subagent error:"
                   /\ wait.error # <<>> => Tail(returned'.result.text) = wait.error
                   /\ returned'.result.text # <<"Subagent still running">>
                   /\ returned'.trace[Len(returned'.trace)] = "agent.wait"
              [] OTHER ->
                   /\ returned' = NoReturn
                   /\ call'[p].pc = "history"]_vars
  /\ [][\A p \in Procs, replyText \in ReplyTexts \ {<<>>} :
          SendHistoryReturned(p, Ok, replyText) =>
            returned'.result = [Reply(replyText) EXCEPT !.runId = call[p].runId]]_vars
  /\ [][\A p \in Procs :
          call[p].pc # "history" /\ call'[p].pc = "history" =>
            call[p].kind = "send" /\ call[p].pc = "wait"]_vars
  /\ \A p \in Procs : (call[p].kind = "send") ~> (call[p].pc = "idle")

\* C21 witness: a send came back with the error its agent.wait reported.
C21_Witness ==
  /\ returned.kind = "send"
  /\ returned.result.text = <<"Subagent error:", "boom">>
  /\ returned.trace = <<"agent", "agent.wait">>

\* The value the last pair of flag among pairs gives, "" if none does.
ValueOf(flag, pairs) ==
  LET given == {i \in 1..Len(pairs) : pairs[i] # <<>> /\ pairs[i][1] = flag}
  IN IF given = {} THEN ""
     ELSE pairs[CHOOSE i \in given : \A j \in given : j <= i][2]

\* The spawn command in flight or just returned.
SpawnSeen == IF returned # NoReturn THEN returned ELSE call[1]

\* C22: /subagents spawn <agentId> followed by words and by --model X and
\* --thinking Y, in any order and place, calls the spawn engine with agent id,
\* model X and thinking Y as written and with the words in their order as the
\* task; without an agent id or without a word it replies with the usage and
\* the engine is not called.
C22_SpawnCommandParsing ==
  /\ [](SpawnSeen.kind = "spawn" /\ SpawnSeen.args.command =>
          /\ SpawnSeen.args.agentId # <<>> /\ SpawnSeen.args.task # <<>>
          /\ \A a \in {<<>>, <<"o">>}, b \in {<<>>, <<"o">>}, c \in {<<>>, <<"high">>},
                f1 \in FlagPairs \cup {<<>>}, f2 \in FlagPairs \cup {<<>>} :
                SpawnSeen.args.restTokens = <<"o">> \o a \o f1 \o b \o f2 \o c =>
                  /\ SpawnSeen.args.agentId = <<"o">>
                  /\ SpawnSeen.args.task = a \o b \o c
                  /\ SpawnSeen.args.model = TextOf(ValueOf(FLAG_MODEL, <<f1, f2>>))
                  /\ SpawnSeen.args.thinking = ValueOf(FLAG_THINKING, <<f1, f2>>))
  /\ [][call[1].pc = "idle" =>
          \/ returned'.result = Reply(<<"Usage:">>) /\ returned'.kind = "spawn" /\ NoEffect
          \/ /\ ~SpawnFromTokens(1, Root, <<>>)
             /\ \A f1 \in FlagPairs \cup {<<>>}, f2 \in FlagPairs \cup {<<>>} :
                   ~SpawnFromTokens(1, Root, <<"o">> \o f1 \o f2)]_vars

\* C22 witness: a spawn command with both flags was accepted.
C22_Witness ==
  /\ returned.kind = "spawn"
  /\ Head(returned.result.text) = "Spawned subagent"
  /\ returned.args.model = <<"o">>
  /\ returned.args.thinking = "high"
  /\ returned.args.task = <<"o", "high">>
  /\ Len(returned.args.restTokens) > 2 + Len(returned.args.task) + 2

\* ------------------------------------------------------------------ C23
\* The socket c has authenticated: a hello of c carried the token of its
\* node, or a pair-request of c was approved.
Authentic(c) ==
  \/ \E f \in callbacks : f.cb = "verified" /\ f.conn = c
  \/ \E f \in callbacks : f.cb = "requested" /\ f.conn = c /\ f.id \in pairing.approved

Answered(c, frame) == conn'[c].sent = Append(conn[c].sent, frame)

\* C23: a socket that has not authenticated (no hello with a valid token,
\* no approved pair-request) never causes onEvent, onRequest or
\* onAuthenticated to be called and is never in listConnected; its hello
\* without a token is answered NOT_PAIRED when the node is unknown, and its
\* event, req, ping and invoke-res frames are answered UNAUTHORIZED.
C23_UnauthenticatedIsShutOut ==
  /\ [](\A f \in callbacks :
          f.cb \in {"onEvent", "onRequest", "onAuthenticated"} => Authentic(f.conn))
  /\ [](\A entry \in listConnected : Authentic(entry.socket))
  /\ [][\A c \in Conns : ~Authentic(c) =>
          /\ HandleEvent(c) \/ HandlePing(c) => Answered(c, ErrorFrame("UNAUTHORIZED"))
          /\ \A id \in InvokeIds :
               HandleInvokeRes(c, id) => Answered(c, ErrorFrame("UNAUTHORIZED"))
          /\ \A id \in 0..1, ok \in BOOLEAN :
               HandleRequest(c, id, ok) => Answered(c, Frame("res", "UNAUTHORIZED", 0, id))
          /\ \A h \in Handlers :
               /\ HelloUnpaired(c, h)
               /\ conn[c].socket = "open"
               /\ getPairedNode(pairing, conn[c].handlers[h].nodeId) = NoPaired
               => Answered(c, ErrorFrame("NOT_PAIRED"))]_vars

\* ------------------------------------------------------------------ C24
\* The handler h of socket c waits for the approval of a request that is
\* approved, on an open socket.
ApprovedWaiting(c, h) ==
  /\ conn[c].handlers[h].kind = "pair-request"
  /\ conn[c].handlers[h].request.requestId \in pairing.approved
  /\ conn[c].socket = "open"

\* The handler h of socket c verifies a hello that carries the token of its
\* node, a token that a pair-ok frame carried.
TokenHello(c, h) ==
  /\ conn[c].handlers[h].kind = "hello"
  /\ conn[c].handlers[h].pc = "verifyNodeToken"
  /\ conn[c].socket = "open"
  /\ pairing.paired[conn[c].handlers[h].nodeId].token = conn[c].handlers[h].token
  /\ \E d \in Conns \ {c} : \E i \in 1..Len(conn[d].sent) :
       conn[d].sent[i] = PairOk(conn[c].handlers[h].token)

EndsWith(log, frames) ==
  /\ Len(log) >= Len(frames)
  /\ SubSeq(log, Len(log) - Len(frames) + 1, Len(log)) = frames

\* C24: once a pair-request is approved the server writes pair-ok with the
\* token and then hello-ok to its socket, in that order and not before the
\* approval; a later hello of another socket that carries that token for
\* the same nodeId is answered with hello-ok.
C24_PairOkThenHelloOk ==
  /\ [][\A c \in Conns, h \in Handlers :
          ApprovedWaiting(c, h) /\ PairSettled(c, h) =>
            conn'[c].sent = conn[c].sent \o
              <<PairOk(pairing.paired[conn[c].handlers[h].request.nodeId].token), HelloOk>>]_vars
  /\ [](\A c \in Conns : \A i \in 1..Len(conn[c].sent) :
          conn[c].sent[i].type = "pair-ok" =>
            /\ i < Len(conn[c].sent) /\ conn[c].sent[i + 1] = HelloOk
            /\ conn[c].sent[i].token \in 1..(pairing.nextToken - 1))
  /\ [][\A c \in Conns :
          Len(conn'[c].sent) > Len(conn[c].sent) /\ conn'[c].sent[Len(conn[c].sent) + 1].type = "pair-ok" =>
            \E h \in Handlers :
              /\ conn[c].handlers[h].kind = "pair-request"
              /\ conn[c].handlers[h].request \notin pairing.pending
              /\ pairing.paired[conn[c].handlers[h].request.nodeId].approvedAtMs
                   >= conn[c].handlers[h].request.ts
              /\ pairing.paired[conn[c].handlers[h].request.nodeId].token
                   = conn'[c].sent[Len(conn[c].sent) + 1].token]_vars
  /\ [](\A c \in Conns, h \in Handlers :
          ApprovedWaiting(c, h) /\ conn[c].handlers[h].pc # "requestNodePairing" =>
            ENABLED (PairPolled(c, h) \/ PairSettled(c, h)))
  /\ [][\A c \in Conns, h \in Handlers :
          TokenHello(c, h) /\ HelloVerified(c, h) =>
            conn'[c].handlers[h].pc = "updatePairedNodeMetadata"]_vars
  /\ [][\A c \in Conns, h \in Handlers :
          HelloRegistered(c, h) /\ conn[c].socket = "open" => Answered(c, HelloOk)]_vars

\* A socket was paired and another one said hello with the token of the
\* pair-ok frame and was answered hello-ok.
C24_Witness ==
  \E c \in Conns, t \in 1..MaxApprovals : \E d \in Conns \ {c} :
    /\ conn[c].sent = <<PairOk(t), HelloOk>>
    /\ conn[d].sent = <<HelloOk>>
    /\ \E f \in callbacks : f.cb = "verified" /\ f.conn = d

\* ------------------------------------------------------------------ C25
\* The sockets whose waiter table holds the waiter of invoke id.
WaitersOf(id) == {c \in Conns : id \in conn[c].invokeWaiters}

\* C25: every server.invoke to a connected node settles exactly once: it
\* resolves with the invoke-res frame that carries its id, or rejects on
\* timeout, or rejects when the connection closes (or at once when the
\* write of the invoke frame throws); a settled invoke has no waiter in a
\* waiter table; an invoke-res with the id of no waiter changes nothing.
C25_InvokeSettlesOnce ==
  /\ [](\A id \in InvokeIds :
          /\ invokes[id].settles <= 1
          /\ invokes[id].state = "settled" =>
               /\ invokes[id].settles = 1
               /\ WaitersOf(id) = {}
               /\ ~invokes[id].timer
               /\ invokes[id].outcome \in {"resolved", "timeout", "closed", "write"}
               /\ invokes[id].outcome = "resolved" => invokes[id].res = id
          /\ invokes[id].state = "pending" =>
               /\ WaitersOf(id) = {invokes[id].socket}
               /\ invokes[id].timer)
  /\ [][\A c \in Conns, id \in InvokeIds :
          HandleInvokeRes(c, id) =>
            IF conn[c].isAuthenticated /\ id \in conn[c].invokeWaiters
            THEN invokes'[id].outcome = "resolved"
            ELSE invokes' = invokes]_vars
  /\ [][\A c \in Conns, id \in InvokeIds :
          SocketClosed(c) /\ id \in conn[c].invokeWaiters => invokes'[id].outcome = "closed"]_vars
  /\ [][\A id \in InvokeIds :
          InvokeTimeout(id) => invokes[id].state = "pending" /\ invokes'[id].outcome = "timeout"]_vars
  /\ \A id \in InvokeIds : invokes[id].state = "pending" ~> invokes[id].state = "settled"

\* One invoke was resolved by its invoke-res, the other one was rejected
\* when the socket closed.
C25_Witness ==
  \E id \in InvokeIds, other \in InvokeIds :
    /\ invokes[id].outcome = "resolved"
    /\ invokes[other].outcome = "closed"

\* ------------------------------------------------------------------ C26
\* The steps of a steer that succeeds, in the order the claim gives them.
SteerSteps(sessionIdKnown) ==
  <<"markSubagentRunForSteerRestart">>
  \o (IF sessionIdKnown THEN <<"abortEmbeddedPiRun">> ELSE <<>>)
  \o <<"clearSessionQueues", "agent.wait", "agent", "replaceSubagentRunAfterSteer">>

IsPrefix(a, b) == Len(a) <= Len(b) /\ SubSeq(b, 1, Len(a)) = a

Steered == returned.kind = "steer" /\ returned.result.text = <<"steered">>

\* C26: a steer of an active run R flags R for steer-restart, sends the
\* abort signal when the session id is known, clears the queues, attempts
\* agent.wait on R, launches the replacement run and replaces R in the
\* registry, in this order; R is flagged before the abort signal and the
\* registry is changed only after the relaunch has succeeded.
C26_SteerOrder ==
  /\ [][\A p \in Procs :
          call[p].pc = "idle" /\ call'[p].kind = "steer" /\ call'[p].pc = "wait" =>
            /\ IsPrefix(call'[p].trace, SteerSteps(store[call'[p].child].sessionId))
            /\ call'[p].trace[Len(call'[p].trace)] = "agent.wait"
            /\ subagentRuns'[call'[p].target].steerRestart]_vars
  /\ [](\A p \in Procs : call[p].kind = "steer" =>
          /\ \E known \in BOOLEAN : IsPrefix(call[p].trace, SteerSteps(known))
          /\ call[p].pc = "wait" => call[p].trace[Len(call[p].trace)] = "agent.wait"
          /\ call[p].pc = "agent" =>
               /\ call[p].trace[Len(call[p].trace)] = "agent"
               /\ ~Has(subagentRuns, call[p].runId))
  /\ [](Steered =>
          /\ \E known \in BOOLEAN : returned.trace = SteerSteps(known)
          /\ Has(subagentRuns, returned.result.runId)
          /\ ~Has(subagentRuns, returned.target))
  /\ [][\A p \in Procs :
          /\ call[p].kind = "steer"
          /\ \/ Has(subagentRuns', call[p].runId)
             \/ Has(subagentRuns, call[p].target) /\ ~Has(subagentRuns', call[p].target)
          => Steered']_vars

\* A steer of a run with a known session id has succeeded.
C26_Witness ==
  /\ Steered
  /\ returned.trace = SteerSteps(TRUE)
  /\ returned.rejections = <<>>

\* ------------------------------------------------------------------ C27
\* The steer of p is suspended and its target was marked terminated by a
\* kill that has returned.
KilledUnderSteer(p) ==
  /\ call[p].kind = "steer"
  /\ call[p].pc \in {"wait", "agent"}
  /\ Has(subagentRuns, call[p].target)
  /\ subagentRuns[call[p].target].ended
  /\ subagentRuns[call[p].target].outcome = "killed"

\* C27: when a run is marked terminated by a kill while a steer of the run
\* is suspended at its settle-wait or at its relaunch, then once the steer
\* has returned too the registry holds no record in flight for the child
\* session of the run.
C27_KillIsFinal ==
  [][\A p \in Procs :
       KilledUnderSteer(p) /\ call'[p].pc = "idle" =>
         \A r \in RunIds :
           Has(subagentRuns', r) /\ subagentRuns'[r].childSessionKey = call[p].child
             => subagentRuns'[r].ended]_vars

\* The fields of a record that no steer bookkeeping touches.
Terminal(rec) ==
  <<rec.runId, rec.childSessionKey, rec.requesterSessionKey, rec.ended,
    rec.outcome, rec.createdAt, rec.endedAt>>

\* C28: a record whose endedAt is set is terminal.  No step of a command (a
\* second termination, a steer mark or clear, the replace after a steer, a
\* kill) removes it from the registry or changes its endedAt, its outcome or
\* its identity, so it never becomes a run in flight again.
C28_EndedIsTerminal ==
  [][\A r \in RunIds :
       Has(subagentRuns, r) /\ subagentRuns[r].ended =>
         /\ Has(subagentRuns', r)
         /\ Terminal(subagentRuns'[r]) = Terminal(subagentRuns[r])]_vars


RejectedCalls(log) == {log[i].method : i \in 1..Len(log)}

\* C29: during a steer a failure or timeout of the settle-wait (agent.wait
\* on the interrupted run) is not fatal.  However the wait ends, the next
\* thing the steer does is the relaunch call, and the steer replies
\* `steered` exactly when the relaunch call resolved, `send failed` when it
\* rejected.
C29_SettleWaitNotFatal ==
  /\ [][\A p \in Procs :
          call[p].kind = "steer" /\ call[p].pc = "wait" /\ call'[p] # call[p] =>
            /\ call'[p].pc = "agent"
            /\ call'[p].trace = Append(call[p].trace, "agent")]_vars
  /\ [][\A p \in Procs :
          call[p].kind = "steer" /\ call[p].pc = "agent" /\ call'[p].pc = "idle" =>
            /\ returned'.kind = "steer"
            /\ returned'.result.status = "reply"
            /\ IF "agent" \in RejectedCalls(returned'.rejections)
               THEN /\ Len(returned'.result.text) > 0
                    /\ returned'.result.text[1] = "send failed:"
               ELSE returned'.result.text = <<"steered">>]_vars

\* A steer whose settle-wait failed has replied `steered`.
C29_Witness ==
  /\ Steered
  /\ RejectedCalls(returned.rejections) = {"agent.wait"}


\* The admission checks a request of req for agentId violates in the state.
ViolatedChecks(req, agentId) ==
  LET requesterAgentId == requesterAgentIdOf(req)
      targetAgentId == targetAgentIdOf(req, agentId)
  IN (IF getSubagentDepthFromSessionStore(store, req) >= maxSpawnDepthOf(cfg)
      THEN {"depth"} ELSE {})
     \cup (IF countActiveRunsForSession(subagentRuns, req) >= maxChildrenOf(cfg)
           THEN {"fan-out"} ELSE {})
     \cup (IF /\ targetAgentId # requesterAgentId
              /\ AllowlistRejects(cfg.allowAgents[requesterAgentId], targetAgentId)
           THEN {"allowlist"} ELSE {})

\* C30: the admission checks run in the order depth, fan-out, allowlist.  A
\* spawn request that violates several of them is rejected as forbidden with
\* the reason of the first violated check in that order, and a request that
\* violates none is not rejected as forbidden.
C30_AdmissionOrder ==
  [][returned' # returned /\ returned'.kind = "spawn" /\ call' = call =>
       LET violated == ViolatedChecks(returned'.req, returned'.args.agentId)
           result == returned'.result
       IN /\ violated # {} => result.status = "forbidden"
          /\ "depth" \in violated => result.error = ErrDepth
          /\ "fan-out" \in violated /\ "depth" \notin violated
               => result.error = ErrChildren
          /\ violated = {"allowlist"} => result.error = ErrAllow
          /\ violated = {} => result.status # "forbidden"]_vars

\* A request that violated all three checks was rejected for its depth.
C30_Witness ==
  /\ returned.kind = "spawn"
  /\ returned.result.status = "forbidden"
  /\ returned.result.error = ErrDepth
  /\ ViolatedChecks(returned.req, returned.args.agentId)
       = {"depth", "fan-out", "allowlist"}


\* The gateway calls of a spawn that got as far as the agent launch, for the
\* model and the thinking level it resolved.
SpawnCalls(model, thinking) ==
  <<"sessions.patch:spawnDepth">>
  \o (IF model # <<>> THEN <<"sessions.patch:model">> ELSE <<>>)
  \o (IF thinking # "" THEN <<"sessions.patch:thinkingLevel">> ELSE <<>>)
  \o <<"agent">>

Launching(p) == call[p].kind = "spawn" /\ call[p].pc = "agent"

\* C31: in an accepted spawn the gateway calls are, in this order, the
\* sessions.patch of spawnDepth, the sessions.patch of model when a model
\* resolved, the sessions.patch of thinkingLevel when a thinking level
\* resolved, and the agent launch with deliver = false on the subagent lane.
\* The record of the run enters the registry only in the step in which the
\* agent launch returns.
C31_SpawnCallOrder ==
  /\ [](\A p \in Procs :
          Launching(p) =>
            /\ call[p].trace = SpawnCalls(call[p].model, call[p].thinking)
            /\ call[p].agentParams.deliver = FALSE
            /\ call[p].agentParams.lane = AGENT_LANE_SUBAGENT)
  /\ [][returned'.kind = "spawn" /\ returned'.result.status = "accepted"
          /\ returned' # returned =>
            \E p \in Procs :
              /\ Launching(p)
              /\ call'[p].pc = "idle"
              /\ returned'.trace = call[p].trace
              /\ returned'.result.runId = call[p].runId]_vars
  /\ [][\A r \in RunIds :
          ~Has(subagentRuns, r) /\ Has(subagentRuns', r) =>
            \E p \in Procs :
              /\ Launching(p)
              /\ call[p].runId = r
              /\ call'[p].pc = "idle"
              /\ returned'.result.status = "accepted"]_vars

\* A spawn that made all four calls has been accepted.
C31_Witness ==
  /\ returned.kind = "spawn"
  /\ returned.result.status = "accepted"
  /\ returned.trace = <<"sessions.patch:spawnDepth", "sessions.patch:model",
                        "sessions.patch:thinkingLevel", "agent">>
  /\ Has(subagentRuns, returned.result.runId)


\* The node ids whose token socket c presented and the server verified, or
\* whose pairing the server saw approved for c.
AuthenticatedAs(c) ==
  {cb.nodeId : cb \in {x \in callbacks : x.cb = "verified" /\ x.conn = c}}

\* C32: every onEvent and onRequest callback of a connection is invoked with
\* the nodeId under which that connection authenticated; a later hello or
\* pair-request on the connection that names another nodeId and fails, or
\* is still pending, does not change it.
C32_EventsKeepNodeId ==
  \A cb \in callbacks :
    cb.cb \in {"onEvent", "onRequest"} => cb.nodeId \in AuthenticatedAs(cb.conn)


\* Socket c has been told hello-ok: its hello or pair-request has completed.
Welcomed(c) == \E i \in 1..Len(conn[c].sent) : conn[c].sent[i] = HelloOk

\* C33: the connection table holds at most one connection per nodeId, and
\* every authenticated socket that is still open is the one in the table
\* for its nodeId: a second socket that authenticates with the nodeId, also
\* while both hellos are in flight, has the earlier one destroyed, and the
\* close of the earlier socket does not remove the entry of the newer one.
\* Stated for the sockets of a server on which one nodeId only is in use.
C33_OpenSocketIsInTable ==
  \A c \in Conns :
    (/\ conn[c].socket = "open" /\ conn[c].isAuthenticated /\ Welcomed(c)
     /\ AuthenticatedAs(c) = {conn[c].nodeInfo}
     /\ (\A d \in Conns : conn[d].nodeId \in {NoNode, conn[c].nodeInfo})
     /\ (\A n \in NodeNames \ {conn[c].nodeInfo} : connections[n] = NoConnection))
      => connections[conn[c].nodeInfo].socket = c


\* The agent call of p resolves in this step and run r enters the registry.
Registers(p, r) ==
  /\ call[p].pc = "agent"
  /\ call'[p].pc = "idle"
  /\ call[p].runId = r
  /\ Has(subagentRuns', r)
  /\ ~Has(subagentRuns, r)

\* C34: the run timeout is propagated unchanged.  For every record that
\* enters the registry, by a spawn or by the replacement of a steer, the
\* timeout passed in the agent call that launched the run equals the
\* record's runTimeoutSeconds, which is a non-negative integer.
C34_TimeoutPropagated ==
  [][\A p \in Procs, r \in RunIds :
       Registers(p, r) =>
         /\ subagentRuns'[r].runTimeoutSeconds = call[p].agentParams.timeout
         /\ subagentRuns'[r].runTimeoutSeconds \in Nat]_vars


\* The limit argument of /subagents log <target> [limit] [tools]: the first
\* token after the target that is all digits, <<>> when there is none.
LimitArgument(restTokens) ==
  LET digits == SelectSeq(Tail(restTokens), isDigits)
  IN IF digits = <<>> THEN <<>> ELSE digits[1]

\* C35: log requests chat.history with limit 20 when no limit argument is
\* given, and otherwise with the given limit clamped to 1..200, whatever
\* the form of the target, a numeric list index included.
C35_LogLimit ==
  [][\A p \in Procs :
       call[p].pc = "idle" /\ call'[p].kind = "log" /\ call'[p].pc = "history" =>
         LET given == LimitArgument(call'[p].args.restTokens)
             limit == call'[p].historyLimit
         IN IF given = <<>> THEN limit = 20
            ELSE /\ limit \in 1..200
                 /\ parseInt(given) \in 1..200 => limit = parseInt(given)
                 /\ parseInt(given) < 1 => limit = 1
                 /\ parseInt(given) > 200 => limit = 200]_vars


\* The runs of the root session a stage of the label search matches.
LabelIs(token) ==
  {rec \in listSubagentRunsForRequester(subagentRuns, Root) :
     toLowerCase(formatRunLabel(rec)) = toLowerCase(trim(token))}

LabelStartsWith(token) ==
  {rec \in listSubagentRunsForRequester(subagentRuns, Root) :
     IsPrefix(toLowerCase(trim(token)), toLowerCase(formatRunLabel(rec)))}

RunIdStartsWith(token) ==
  {rec \in listSubagentRunsForRequester(subagentRuns, Root) :
     IsPrefix(trim(token), runIdText(rec.runId))}

\* The deciding stage: the first one that matches a run.
DecidingStage(token) ==
  IF LabelIs(token) # {} THEN LabelIs(token)
  ELSE IF LabelStartsWith(token) # {} THEN LabelStartsWith(token)
  ELSE RunIdStartsWith(token)

LabelToken(token) ==
  /\ trim(token) # <<>>
  /\ trim(token) # <<"l", "a", "s", "t">>
  /\ ~isDigits(trim(token))
  /\ \A i \in 1..Len(token) : token[i] # ":"

\* C36: for a token that is not "last", not all digits and has no ':',
\* the target is the single run of the first stage that matches (label,
\* label prefix, run id prefix), and an error, never a run, when that stage
\* matches several runs or no stage matches.
C36_LabelStages ==
  [][\A token \in TargetTokens :
       (/\ LabelToken(token)
        /\ call[1].pc = "idle"
        /\ call'[1].kind = "log" \/ returned'.kind = "log"
        /\ (IF call'[1].kind = "log" THEN call'[1] ELSE returned').args.restTokens
             = <<token>>)
       => IF Cardinality(DecidingStage(token)) = 1
          THEN /\ call'[1].pc = "history"
               /\ \E rec \in DecidingStage(token) :
                    /\ call'[1].target = rec.runId
                    /\ call'[1].child = rec.childSessionKey
          ELSE /\ call'[1].pc = "idle"
               /\ returned'.result.status = "reply"
               /\ returned'.target = 0]_vars

\* A prefix of one run's label has picked that run while another run's id
\* starts with it too.
C36_Witness ==
  /\ call[1].kind = "log" /\ call[1].pc = "history"
  /\ call[1].args.restTokens = << <<"a">> >>
  /\ LabelIs(<<"a">>) = {}
  /\ Cardinality(LabelStartsWith(<<"a">>)) = 1
  /\ Cardinality(RunIdStartsWith(<<"a">>)) = 2
  /\ \E rec \in LabelStartsWith(<<"a">>) : call[1].target = rec.runId


\* The places the model of a spawn comes from, in the order of their
\* precedence, each trimmed; an object stands for its primary.
ModelSources(c, args, child) ==
  <<trim(args.model),
    trim(c.subagentModel[child.agent].text),
    trim(c.defaultsSubagentModel.text),
    trim(c.defaultsModelPrimary),
    resolveDefaultModelForAgent(child.agent).provider \o <<"/">>
      \o resolveDefaultModelForAgent(child.agent).model>>

\* C37: the effective model of a spawn is the first non-empty value, after
\* trimming, of the explicit model parameter, the target agent's subagent
\* model, the global default subagent model, the global default primary
\* model and the runtime default provider/model of the target agent.
C37_ModelPrecedence ==
  \A p \in Procs :
    call[p].kind = "spawn" /\ call[p].pc # "idle" =>
      LET sources == ModelSources(cfg, call[p].args, call[p].child)
      IN \E i \in 1..Len(sources) :
           /\ sources[i] # <<>>
           /\ \A j \in 1..(i - 1) : sources[j] = <<>>
           /\ call[p].model = sources[i]

\* A spawn for agent o without a model parameter, o's own subagent model
\* blank: the global default subagent model is patched into the child.
C37_Witness ==
  /\ call[1].kind = "spawn" /\ call[1].pc = "agent"
  /\ call[1].child.agent = <<"o">>
  /\ trim(call[1].args.model) = <<>>
  /\ cfg.subagentModel[<<"o">>] = ModelObject(<<" ">>)
  /\ cfg.subagentModel[<<"m">>] # ModelString(<<>>)
  /\ cfg.defaultsSubagentModel = ModelObject(<<" ", "s", " ">>)
  /\ call[1].model = <<"s">>
  /\ call[1].modelApplied


\* What the send of p has done so far, after a step of it.
SendTraceAfter(p) == IF call'[p].kind = "send" THEN call'[p].trace ELSE returned'.trace

\* C38: send never changes the registry, whatever its RPCs answer: no step
\* of it inserts, replaces or terminates a record or touches a steer-restart
\* flag, and it neither aborts a run nor clears a queue.
C38_SendLeavesRegistry ==
  [][\A p \in Procs :
       call'[p] # call[p] /\ (call[p].kind = "send" \/ call'[p].kind = "send") =>
         /\ subagentRuns' = subagentRuns
         /\ \A i \in 1..Len(SendTraceAfter(p)) :
              SendTraceAfter(p)[i] \in {"agent", "agent.wait", "chat.history"}]_vars

\* A send to a run that was killed meanwhile has gone through its three
\* RPCs and replied.
C38_Witness ==
  /\ returned.kind = "send"
  /\ returned.trace = <<"agent", "agent.wait", "chat.history">>
  /\ returned.result.status = "reply"
  /\ subagentRuns[returned.target].ended
  /\ subagentRuns[returned.target].outcome = "killed"


\* The continuation of a request is resumed once at most, and by the "res"
\* line, the timeout, a failed send or disconnect; until then it is in
\* pendingRPC, where each of them finds it.
ResumedOnce ==
  \A id \in RpcIds :
    LET rpc == session.rpcs[id]
    IN /\ rpc.resumed <= 1
       /\ id \in session.pendingRPC <=> rpc.pc \in {"sending", "waiting"}
       /\ rpc.pc \in {"none", "beginRPC", "sending", "waiting"} => rpc.resumed = 0
       /\ rpc.pc = "done" /\ rpc.by # "not connected" =>
            rpc.resumed = 1 /\ rpc.by \in {"res", "timeout", "send", "disconnect"}

\* What disconnect() leaves behind, seen at the step that drops the
\* connection.
DisconnectLeavesIdle ==
  session.connection # 0 /\ session'.connection = 0 =>
    /\ session'.pendingRPC = {}
    /\ session'.pingTask = 0
    /\ session'.state = "idle"

ConnectedHasConnection == session.state = "connected" => session.connection # 0

\* C40: every pending RPC continuation is resumed exactly once, by its "res"
\* line, its timeout, a send failure or disconnect; after disconnect()
\* pendingRPC is empty, there is no connection and no ping task and the state
\* is idle; and the state is connected only while a connection exists.
C40_SessionConsistent ==
  /\ [](ResumedOnce /\ ConnectedHasConnection)
  /\ [][DisconnectLeavesIdle]_vars


\* The pong is overdue: lastPongAt is more than the timeout ago.
PongOverdue == session.lastPongAt # NoPong /\ session.lastPongAt > PING_TIMEOUT

\* After its sleep the ping task of a connected session whose pong is not
\* overdue sends a ping.
PingEveryInterval ==
  \A k \in ConnectIds :
    (/\ session.pings[k].pc = "sleep" /\ session'.pings[k].pc # "sleep"
     /\ ~session.pings[k].cancelled
     /\ session.state = "connected" /\ ~PongOverdue)
    => session'.pings[k].pc = "send"

\* The ping task ends at its send only when the send failed, and then the
\* session is disconnected.
PingFailureDisconnects ==
  \A k \in ConnectIds :
    (/\ session.pings[k].pc = "send" /\ session'.pings[k].pc = "done"
     /\ ~session.pings[k].cancelled)
    => session'.state = "idle" /\ session'.connection = 0

SessionDropped == session.state = "idle" /\ session.connection = 0

\* C39: while connected the session sends a ping every interval; when the
\* pong stays overdue, or a ping cannot be sent, the session eventually
\* disconnects: the connection is dropped and the state is idle again.
C39_Heartbeat ==
  /\ [][PingEveryInterval /\ PingFailureDisconnects]_vars
  /\ (session.state = "connected" /\ PongOverdue)
       ~> (SessionDropped \/ (session.state = "connected" /\ ~PongOverdue))

============================================================================
